---------------------------- MODULE Spec2Model ----------------------------
(***************************************************************************)
(* The sentence pipeline of espanjapeli: Tatoeba corpus loading, triple    *)
(* resolution, deduplication, categorisation, the writing of the sentence  *)
(* shards and their manifest, lesson tiering and the word-to-sentences     *)
(* reverse index.                                                          *)
(*                                                                         *)
(* Texts are sequences of one-character strings, so that lower(), strip(), *)
(* split(), the substring test `in` and the word-boundary regex \b are     *)
(* computed character by character as Python computes them.                *)
(***************************************************************************)
EXTENDS Integers, Sequences, FiniteSets, TLC

VARIABLES
    dd_pc,          \* deduplicator driver: "off", "input", "deduped" or "rerun"
    dd_sentences,   \* the list handed to deduplicate_sentences
    dd_result,      \* what the first call returned
    dd_rerun,       \* what the call on the returned list returned
    cl_pc,          \* classifier driver: "off", "loaded" or "categorized"
    cl_raw,         \* raw_sentences, as load_deduplicated_sentences returns them
    cl_categories,  \* categories, as load_categories returns them
    cl_sentences,   \* the Sentence objects of convert_to_sentence_objects
    ls_pc,          \* lesson tiler driver: "off", "loaded" or "generated"
    ls_categories,  \* vocabulary categories in key order: key, name, words
    ls_sentences,   \* the sentence pool of load_sentences
    ls_tier_size,   \* tier_size
    ls_lessons,     \* the lessons of generate_all_lessons
    ix_pc,          \* sentence indexer driver: "off", "loaded" or "mapped"
    ix_words,       \* words_map, in sorted key order
    ix_sentences,   \* sentences_map, in insertion order
    ix_mapping,     \* the mapping of generate_mapping
    pl_pc,          \* pipeline stage: "off", "load_sentences", "load_links",
                    \* "resolve", "categorize" or "done"
    pl_run,         \* which run of the pipeline this is: 1 or 2
    pl_sentences_csv,   \* rows of sentences.csv, each a sequence of fields
    pl_links_csv,   \* rows of links.csv
    pl_sent_text,   \* sent_text: sentence id -> (lang, text), insertion-ordered
    pl_neighbors,   \* neighbors: sentence id -> set of linked ids
    pl_i,           \* position of the resolver's loop in sent_text.items()
    pl_spa_to_triple,   \* spa_to_triple: Spanish text -> triple, insertion-ordered
    pl_work,        \* the artifacts of the current run
    pl_out,         \* the artifacts of the completed runs
    ld_pc,          \* corpus loader: "off", "sentences", "links" or "done"
    ld_sentences_csv,   \* rows of sentences.csv as csv.reader yields them
    ld_links_csv,   \* rows of links.csv as csv.reader yields them
    ld_i,           \* the row the reader is at
    ld_sent_text,   \* sent_text of load_sentences
    ld_neighbors,   \* neighbors of load_links
    wr_pc,          \* output writer: "off", "start", "writing", "done", "stopped"
    wr_run,         \* which run of the stage this is: 1 or 2
    wr_sentences,   \* the Sentence objects of this run
    wr_sorted,      \* sorted_categories: category id and sentences, by priority
    wr_k,           \* the next file write of the loop, counted from 1
    wr_manifest,    \* manifest["categories"], in memory
    wr_generated,   \* generated_files
    wr_dir,         \* the output directory: filename -> file content
    wr_before,      \* the output directory as this run found it
    fs_pc,          \* find_sentences_for_word driver: "off", "word", "found"
    fs_word,        \* word_spanish
    fs_level,       \* cefr_level
    fs_pool,        \* sentences
    fs_result,      \* the sentence ids returned
    vm_pc,          \* a program reading words.ts: "off", "start", "generate",
                    \* "sentences", "map" or "exited"
    vm_tool,        \* which program: "tiler" or "indexer"
    vm_words_ts,    \* words.ts
    vm_sentences,   \* the sentence pool loaded from the shards
    vm_diagnostic,  \* the exception or error message the program ended with
    vm_lessons_dir, \* the lessons directory: filename -> content
    vm_word_sentences,  \* word-sentences.json: <<>> when there is no file
    vm_lessons_before,  \* the lessons directory as the program found it
    vm_word_sentences_before,    \* word-sentences.json as the program found it
    sd_pc,    \* shard directory: "off", "idle", a reader's position
    sd_run,    \* how many writer runs the directory has seen
    sd_writer,    \* the program that ran last: tatoeba_categorize or download_tatoeba
    sd_sentences,    \* the Sentence objects of the last writer run
    sd_groups,    \* the groups of the last writer run, in write order
    sd_dir,    \* svelte/static/sentences: filename -> file content
    sd_pool,    \* what load_sentences returned to the reader
    sd_word,    \* the word the Tiler looks up
    sd_found,    \* find_sentences_for_word's result for that word
    sd_mapping,    \* the Indexer's wordToSentences
    mg_pc,    \* merge.py main(): "off", "start", "merged" or "done"
    mg_source,    \* words_and_tips.json
    mg_dest_file,    \* words_tips_translations.json
    mg_dest,    \* dest_data in memory
    mg_counts    \* words_added, words_updated, words_skipped

ddVars == <<dd_pc, dd_sentences, dd_result, dd_rerun>>
clVars == <<cl_pc, cl_raw, cl_categories, cl_sentences>>

lsVars == <<ls_pc, ls_categories, ls_sentences, ls_tier_size, ls_lessons>>

ixVars == <<ix_pc, ix_words, ix_sentences, ix_mapping>>

plVars == <<pl_pc, pl_run, pl_sentences_csv, pl_links_csv, pl_sent_text,
            pl_neighbors, pl_i, pl_spa_to_triple, pl_work, pl_out>>

ldVars == <<ld_pc, ld_sentences_csv, ld_links_csv, ld_i, ld_sent_text, ld_neighbors>>

wrVars == <<wr_pc, wr_run, wr_sentences, wr_sorted, wr_k, wr_manifest,
            wr_generated, wr_dir, wr_before>>

fsVars == <<fs_pc, fs_word, fs_level, fs_pool, fs_result>>

vmVars == <<vm_pc, vm_tool, vm_words_ts, vm_sentences, vm_diagnostic,
            vm_lessons_dir, vm_word_sentences, vm_lessons_before,
            vm_word_sentences_before>>

sdVars == <<sd_pc, sd_run, sd_writer, sd_sentences, sd_groups, sd_dir, sd_pool,
            sd_word, sd_found, sd_mapping>>

mgVars == <<mg_pc, mg_source, mg_dest_file, mg_dest, mg_counts>>

vars == <<ddVars, clVars, lsVars, ixVars, plVars, ldVars, wrVars, fsVars, vmVars, sdVars, mgVars>>

\* what each component leaves alone
ddOthers == <<clVars, lsVars, ixVars, plVars, ldVars, wrVars, fsVars, vmVars, sdVars, mgVars>>
clOthers == <<ddVars, lsVars, ixVars, plVars, ldVars, wrVars, fsVars, vmVars, sdVars, mgVars>>
lsOthers == <<ddVars, clVars, ixVars, plVars, ldVars, wrVars, fsVars, vmVars, sdVars, mgVars>>
ixOthers == <<ddVars, clVars, lsVars, plVars, ldVars, wrVars, fsVars, vmVars, sdVars, mgVars>>
plOthers == <<ddVars, clVars, lsVars, ixVars, ldVars, wrVars, fsVars, vmVars, sdVars, mgVars>>
ldOthers == <<ddVars, clVars, lsVars, ixVars, plVars, wrVars, fsVars, vmVars, sdVars, mgVars>>
wrOthers == <<ddVars, clVars, lsVars, ixVars, plVars, ldVars, fsVars, vmVars, sdVars, mgVars>>
fsOthers == <<ddVars, clVars, lsVars, ixVars, plVars, ldVars, wrVars, vmVars, sdVars, mgVars>>
vmOthers == <<ddVars, clVars, lsVars, ixVars, plVars, ldVars, wrVars, fsVars, sdVars, mgVars>>
sdOthers == <<ddVars, clVars, lsVars, ixVars, plVars, ldVars, wrVars, fsVars, vmVars, mgVars>>
mgOthers == <<ddVars, clVars, lsVars, ixVars, plVars, ldVars, wrVars, fsVars, vmVars, sdVars>>

----------------------------------------------------------------------------
(* Characters and strings                                                  *)

UpperLetters == {"A", "B"}
LowerLetters == {"a", "b"}
Whitespace   == {" "}
Punctuation  == {"."}

\* str.lower() on one character
LowerChar(c) ==
    CASE c = "A" -> "a"
      [] c = "B" -> "b"
      [] OTHER   -> c

\* str.lower()
lower(s) == [i \in 1..Len(s) |-> LowerChar(s[i])]

\* str.strip(): leading and trailing whitespace removed
RECURSIVE lstrip(_)
lstrip(s) ==
    IF s # <<>> /\ Head(s) \in Whitespace THEN lstrip(Tail(s)) ELSE s

RECURSIVE rstrip(_)
rstrip(s) ==
    IF s # <<>> /\ s[Len(s)] \in Whitespace
    THEN rstrip(SubSeq(s, 1, Len(s) - 1))
    ELSE s

strip(s) == rstrip(lstrip(s))

\* Python's `sub in s` on strings
Contains(sub, s) ==
    \E i \in 0..(Len(s) - Len(sub)) : SubSeq(s, i + 1, i + Len(sub)) = sub

\* len(s.split()): the number of maximal runs of non-whitespace characters
SplitCount(s) ==
    Cardinality({i \in 1..Len(s) :
        /\ s[i] \notin Whitespace
        /\ (i = 1 \/ s[i - 1] \in Whitespace)})

\* Python's list slice xs[a:b] for 0 <= a, with both ends clamped to len(xs)
Slice(xs, a, b) ==
    LET lo == IF a > Len(xs) THEN Len(xs) ELSE a
        hi == IF b > Len(xs) THEN Len(xs) ELSE b
    IN  IF hi <= lo THEN <<>> ELSE SubSeq(xs, lo + 1, hi)

\* All sequences over S of length at most n
SeqsUpTo(S, n) == UNION {[1..k -> S] : k \in 0..n}

----------------------------------------------------------------------------
(* Deduplicator: tatoeba_download.deduplicate_sentences                    *)

MaxList == 3

\* Spanish texts that differ only in case or in whitespace, and one other
SpaTexts == {<<"a">>, <<"A">>, <<"a", " ">>, <<"b">>}
FinTexts == {<<"a">>, <<"b">>}

\* A raw triple as load_raw_sentences builds it; the ids are left out of
\* the enumeration: spa_id is the position in the list, as ids are unique
RawTripleAt(i, spa, fin) ==
    [spa_id |-> i, fin_id |-> 10 + i, eng_id |-> 20 + i,
     spa |-> spa, fin |-> fin, eng |-> <<"a">>]

RawLists ==
    UNION {
        {[i \in 1..n |-> RawTripleAt(i, spas[i], fins[i])] :
            spas \in [1..n -> SpaTexts], fins \in [1..n -> FinTexts]}
        : n \in 0..MaxList}

\* the loop of deduplicate_sentences, prepending instead of appending
RECURSIVE dedup_loop_prepend(_, _, _)
dedup_loop_prepend(sentences, seen, deduped) ==
    IF sentences = <<>> THEN deduped
    ELSE LET s == Head(sentences)
             key == s.spa
         IN  IF key \notin seen
             THEN dedup_loop_prepend(Tail(sentences), seen \cup {key}, <<s>> \o deduped)
             ELSE dedup_loop_prepend(Tail(sentences), seen, deduped)

\* the loop of deduplicate_sentences with the key normalised before the test
RECURSIVE dedup_loop_normalised(_, _, _)
dedup_loop_normalised(sentences, seen, deduped) ==
    IF sentences = <<>> THEN deduped
    ELSE LET s == Head(sentences)
             key == lower(strip(s.spa))
         IN  IF key \notin seen
             THEN dedup_loop_normalised(Tail(sentences), seen \cup {key}, Append(deduped, s))
             ELSE dedup_loop_normalised(Tail(sentences), seen, deduped)

\* for s in sentences: key = s["spa"]; if key not in seen: ...
RECURSIVE dedup_loop(_, _, _)
dedup_loop(sentences, seen, deduped) ==
    IF sentences = <<>> THEN deduped
    ELSE LET s == Head(sentences)
             key == s.spa
         IN  IF key \notin seen
             THEN dedup_loop(Tail(sentences), seen \cup {key}, Append(deduped, s))
             ELSE dedup_loop(Tail(sentences), seen, deduped)

deduplicate_sentences_normalised(sentences) ==
    LET deduped == dedup_loop_normalised(sentences, {}, <<>>)
    IN  [deduped |-> deduped, duplicates_removed |-> Len(sentences) - Len(deduped)]

deduplicate_sentences_prepend(sentences) ==
    LET deduped == dedup_loop_prepend(sentences, {}, <<>>)
    IN  [deduped |-> deduped, duplicates_removed |-> Len(sentences) - Len(deduped)]

\* returns (deduped, duplicates_removed)
deduplicate_sentences(sentences) ==
    LET deduped == dedup_loop(sentences, {}, <<>>)
    IN  [deduped |-> deduped, duplicates_removed |-> Len(sentences) - Len(deduped)]

NoResult == [deduped |-> <<>>, duplicates_removed |-> -1]

DedupOff ==
    /\ dd_pc = "off"
    /\ dd_sentences = <<>>
    /\ dd_result = NoResult
    /\ dd_rerun = NoResult

DedupInit ==
    /\ dd_pc = "input"
    /\ dd_sentences \in RawLists
    /\ dd_result = NoResult
    /\ dd_rerun = NoResult

\* main(), step 2: deduplicated, duplicates_removed = deduplicate_sentences(raw)
Deduplicate ==
    /\ dd_pc = "input"
    /\ dd_result' = deduplicate_sentences(dd_sentences)
    /\ dd_pc' = "deduped"
    /\ UNCHANGED <<dd_sentences, dd_rerun>>
    /\ UNCHANGED ddOthers

\* the stage run again on the list it returned
DeduplicateAgain ==
    /\ dd_pc = "deduped"
    /\ dd_rerun' = deduplicate_sentences(dd_result.deduped)
    /\ dd_pc' = "rerun"
    /\ UNCHANGED <<dd_sentences, dd_result>>
    /\ UNCHANGED ddOthers

DedupNext == Deduplicate \/ DeduplicateAgain

----------------------------------------------------------------------------
(* Claims about the Deduplicator                                           *)

\* indices of the first occurrence of each Spanish text
FirstOccurrences(sentences) ==
    {i \in 1..Len(sentences) :
        \A j \in 1..(i - 1) : sentences[j].spa # sentences[i].spa}

\* C2: deduplicate_sentences returns the subsequence of its input made of
\* the first occurrence of each distinct Spanish text, compared exactly:
\* output texts are pairwise distinct, every input text occurs in the
\* output, order is kept and the earliest triple of a text is the one kept.
C2_FirstOccurrenceSubsequence ==
    dd_pc \in {"deduped", "rerun"} =>
        LET inp  == dd_sentences
            out  == dd_result.deduped
            keep == FirstOccurrences(inp)
        IN  /\ \A k, l \in 1..Len(out) : k # l => out[k].spa # out[l].spa
            /\ \A i \in 1..Len(inp) : \E k \in 1..Len(out) : out[k].spa = inp[i].spa
            /\ Len(out) = Cardinality(keep)
            /\ \E f \in [1..Len(out) -> keep] :
                  /\ \A k, l \in 1..Len(out) : k < l => f[k] < f[l]
                  /\ \A k \in 1..Len(out) : out[k] = inp[f[k]]
            /\ dd_result.duplicates_removed = Len(inp) - Len(out)

\* a list with texts equal up to case and whitespace and one exact repeat
C2_Witness ==
    /\ dd_pc = "deduped"
    /\ Len(dd_sentences) = 3
    /\ dd_sentences[1].spa = <<"a">>
    /\ dd_sentences[2].spa = <<"A">>
    /\ dd_sentences[3].spa = <<"a">>
    /\ dd_sentences[3].fin # dd_sentences[1].fin
    /\ Len(dd_result.deduped) = 2

\* C3: the Deduplicator is idempotent: run on a list it returned, it gives
\* the same list in the same order and reports zero duplicates removed.
C3_DedupIdempotent ==
    dd_pc = "rerun" =>
        /\ dd_rerun.deduped = dd_result.deduped
        /\ dd_rerun.duplicates_removed = 0

\* the first run removed something and the rerun kept two triples in order
C3_Witness ==
    /\ dd_pc = "rerun"
    /\ dd_result.duplicates_removed > 0
    /\ Len(dd_rerun.deduped) = 2

----------------------------------------------------------------------------
(* Category Classifier: tatoeba_categorize                                 *)

MaxKeywords == 1
MaxPatterns == 2
MaxRaw == 1

\* keywords of the rule configuration, one of them written with a capital
KeywordSet == {<<"a">>, <<"A">>}

\* pattern sources: "(" is one re.compile rejects, "b" is a literal
PatternSet == {<<"(">>, <<"b">>}

\* the category ids of the configuration in priority order; "general" is
\* the reserved fallback label and no configured category (see
\* write_output_files, which gives it the default priority 999)
CategoryIds == <<"greetings", "food">>

ClassifyTexts == {<<"A">>, <<"b">>, <<"a", " ", "B">>}

Range(f) == {f[x] : x \in DOMAIN f}

\* Category objects sorted by priority, as load_categories returns them
RuleLists ==
    {[j \in DOMAIN CategoryIds |->
        [id |-> CategoryIds[j], priority |-> j,
         keywords |-> kw[j], patterns |-> pt[j]]] :
        kw \in [DOMAIN CategoryIds -> SeqsUpTo(KeywordSet, MaxKeywords)],
        pt \in [DOMAIN CategoryIds -> SeqsUpTo(PatternSet, MaxPatterns)]}

ClassifyRawLists ==
    UNION {{[i \in 1..n |-> RawTripleAt(i, spas[i], <<"a">>)] :
                spas \in [1..n -> ClassifyTexts]} : n \in 0..MaxRaw}

\* whether re.compile accepts the pattern: an unclosed group is rejected
re_compiles(pattern) == \A i \in 1..Len(pattern) : pattern[i] # "("

\* re.search(pattern, text, re.IGNORECASE) for a pattern of literal
\* characters: "error" stands for re.error being raised
re_search(pattern, text) ==
    IF ~re_compiles(pattern) THEN "error"
    ELSE IF Contains(lower(pattern), lower(text)) THEN "match"
    ELSE "none"

\* for keyword in category.keywords: if keyword in spanish_lower: ... break
RECURSIVE keyword_loop(_, _)
keyword_loop(keywords, spanish_lower) ==
    IF keywords = <<>> THEN FALSE
    ELSE IF Contains(Head(keywords), spanish_lower) THEN TRUE
    ELSE keyword_loop(Tail(keywords), spanish_lower)

\* the pattern loop with re.error ending the loop instead of `continue`
RECURSIVE pattern_loop_abort(_, _)
pattern_loop_abort(patterns, sentence_text) ==
    IF patterns = <<>> THEN FALSE
    ELSE LET found == re_search(Head(patterns), sentence_text)
         IN  IF found = "error" THEN FALSE
             ELSE IF found = "match" THEN TRUE
             ELSE pattern_loop_abort(Tail(patterns), sentence_text)

\* for pattern in category.patterns: try: if re.search(...): append; break
\*                                    except re.error: continue
RECURSIVE pattern_loop(_, _)
pattern_loop(patterns, sentence_text) ==
    IF patterns = <<>> THEN FALSE
    ELSE LET found == re_search(Head(patterns), sentence_text)
         IN  IF found = "error" THEN pattern_loop(Tail(patterns), sentence_text)
             ELSE IF found = "match" THEN TRUE
             ELSE pattern_loop(Tail(patterns), sentence_text)

RECURSIVE category_loop_abort(_, _, _)
category_loop_abort(categories, sentence_text, matched_categories) ==
    IF categories = <<>> THEN matched_categories
    ELSE LET category == Head(categories)
             hit == \/ keyword_loop(category.keywords, lower(sentence_text))
                    \/ pattern_loop_abort(category.patterns, sentence_text)
         IN  category_loop_abort(Tail(categories), sentence_text,
                 IF hit THEN Append(matched_categories, category.id)
                 ELSE matched_categories)

\* for category in categories: keywords first, patterns if no keyword matched
RECURSIVE category_loop(_, _, _)
category_loop(categories, sentence_text, matched_categories) ==
    IF categories = <<>> THEN matched_categories
    ELSE LET category == Head(categories)
             keyword_match == keyword_loop(category.keywords, lower(sentence_text))
             hit == IF keyword_match THEN TRUE
                    ELSE pattern_loop(category.patterns, sentence_text)
         IN  category_loop(Tail(categories), sentence_text,
                 IF hit THEN Append(matched_categories, category.id)
                 ELSE matched_categories)

assign_categories_abort(sentence_text, categories) ==
    category_loop_abort(categories, sentence_text, <<>>)

assign_categories(sentence_text, categories) ==
    category_loop(categories, sentence_text, <<>>)

\* convert_to_sentence_objects without the `if not assigned_categories` fallback
convert_no_fallback(raw_sentences, categories) ==
    [i \in 1..Len(raw_sentences) |->
        LET raw == raw_sentences[i]
        IN  [id |-> raw.spa_id, spanish |-> raw.spa, finnish |-> raw.fin,
             english |-> raw.eng, wordCount |-> SplitCount(raw.spa),
             categories |-> assign_categories(raw.spa, categories)]]

convert_to_sentence_objects(raw_sentences, categories) ==
    [i \in 1..Len(raw_sentences) |->
        LET raw == raw_sentences[i]
            word_count == SplitCount(raw.spa)
            assigned_categories == assign_categories(raw.spa, categories)
        IN  [id |-> raw.spa_id, spanish |-> raw.spa, finnish |-> raw.fin,
             english |-> raw.eng, wordCount |-> word_count,
             categories |-> IF assigned_categories = <<>> THEN <<"general">>
                            ELSE assigned_categories]]

ClassifyOff ==
    /\ cl_pc = "off"
    /\ cl_raw = <<>>
    /\ cl_categories = <<>>
    /\ cl_sentences = <<>>

\* main(), step 1: categories and raw sentences loaded
ClassifyInit ==
    /\ cl_pc = "loaded"
    /\ cl_raw \in ClassifyRawLists
    /\ cl_categories \in RuleLists
    /\ cl_sentences = <<>>

\* main(), step 2: sentences = convert_to_sentence_objects(raw, categories)
Categorize ==
    /\ cl_pc = "loaded"
    /\ cl_sentences' = convert_to_sentence_objects(cl_raw, cl_categories)
    /\ cl_pc' = "categorized"
    /\ UNCHANGED <<cl_raw, cl_categories>>
    /\ UNCHANGED clOthers

ClassifyNext == Categorize

----------------------------------------------------------------------------
(* Claims about the Category Classifier                                    *)

\* the matching rule of the classifier, stated without its loops: a keyword
\* occurs in the lower-cased text, or a pattern that compiles is found in
\* the text with case ignored
RuleMatches(c, t) ==
    \/ \E k \in Range(c.keywords) : Contains(k, lower(t))
    \/ \E p \in Range(c.patterns) :
          re_compiles(p) /\ Contains(lower(p), lower(t))

\* the matching rule with letter case ignored on the keyword as well
RuleMatchesIgnoringCase(c, t) ==
    \/ \E k \in Range(c.keywords) : Contains(lower(k), lower(t))
    \/ \E p \in Range(c.patterns) :
          re_compiles(p) /\ Contains(lower(p), lower(t))

C5_CaseInsensitiveMultiLabel ==
    cl_pc = "categorized" =>
        \A i \in 1..Len(cl_sentences) : \A c \in Range(cl_categories) :
            c.id \in Range(cl_sentences[i].categories)
                <=> RuleMatchesIgnoringCase(c, cl_sentences[i].spanish)

\* the rule list with every pattern re.compile rejects taken out
WithoutMalformed(categories) ==
    [j \in DOMAIN categories |->
        [categories[j] EXCEPT !.patterns = SelectSeq(@, re_compiles)]]

\* C6: a malformed pattern is skipped without aborting: the patterns after
\* it and the later categories are still evaluated, and the labels are
\* those the rule list without the malformed patterns gives.
C6_MalformedPatternSkipped ==
    cl_pc = "categorized" =>
        \A i \in 1..Len(cl_sentences) :
            LET t == cl_sentences[i].spanish
                expected == assign_categories(t, WithoutMalformed(cl_categories))
            IN  /\ cl_sentences[i].categories =
                      IF expected = <<>> THEN <<"general">> ELSE expected
                /\ \A c \in Range(cl_categories) :
                      RuleMatches(c, t) => c.id \in Range(cl_sentences[i].categories)

\* a malformed pattern stands before a matching one in the first category,
\* no keyword matches, and both categories are assigned
C6_Witness ==
    /\ cl_pc = "categorized"
    /\ Len(cl_sentences) = 1
    /\ cl_sentences[1].spanish = <<"b">>
    /\ cl_categories[1].keywords = <<>>
    /\ cl_categories[1].patterns = <<<<"(">>, <<"b">>>>
    /\ cl_categories[2].patterns = <<<<"(">>, <<"b">>>>
    /\ cl_sentences[1].categories = <<"greetings", "food">>

----------------------------------------------------------------------------
(* Whole-word matching and sorting, shared by the Tiler and the Indexer    *)

\* \w of the re module on str patterns: letters (the alphabet has no digits)
IsWordChar(c) == c \in UpperLetters \cup LowerLetters

\* \b at offset p of s (between s[p] and s[p+1]): exactly one side is \w
WordBoundary(s, p) ==
    LET before == p >= 1 /\ IsWordChar(s[p])
        after  == p < Len(s) /\ IsWordChar(s[p + 1])
    IN  before # after

\* re.search(r'\b' + re.escape(word) + r'\b', text)
WholeWordSearch(word, text) ==
    \E i \in 0..(Len(text) - Len(word)) :
        /\ SubSeq(text, i + 1, i + Len(word)) = word
        /\ WordBoundary(text, i)
        /\ WordBoundary(text, i + Len(word))

\* list.sort / sorted with key wordCount: ascending and stable, so an
\* element goes behind the smaller ones and the equal ones that precede it
SortByWordCount(xs) ==
    LET n == Len(xs)
        Pos(i) == 1 + Cardinality({j \in 1..n :
                        \/ xs[j].wordCount < xs[i].wordCount
                        \/ (xs[j].wordCount = xs[i].wordCount /\ j < i)})
    IN  [p \in 1..n |-> xs[CHOOSE i \in 1..n : Pos(i) = p]]

\* the sequence with every element after its first occurrence removed
RECURSIVE Unique(_, _)
Unique(xs, seen) ==
    IF xs = <<>> THEN <<>>
    ELSE IF Head(xs) \in seen THEN Unique(Tail(xs), seen)
    ELSE <<Head(xs)>> \o Unique(Tail(xs), seen \cup {Head(xs)})

RECURSIVE Concat(_)
Concat(seqs) == IF seqs = <<>> THEN <<>> ELSE Head(seqs) \o Concat(Tail(seqs))

\* the duplicate-free sequences over S of length at most n
InjectiveSeqsUpTo(S, n) ==
    {xs \in SeqsUpTo(S, n) : \A i, j \in 1..Len(xs) : i # j => xs[i] # xs[j]}

----------------------------------------------------------------------------
(* Lesson Tiler: data_pipeline/generate_lessons.py                         *)

MaxWords == 4
MaxTierSize == 3
MaxLessonPool == 2
TIER_SIZE == 15
MAX_SENTENCES == 3

NoLevel == "None"
WordTexts == <<<<"a">>, <<"b">>, <<"A", "b">>>>
WordLevels == <<"A1", NoLevel, "C2">>

\* word i of the vocabulary: distinct ids (validate_vocabulary_database
\* rejects a category with a repeated word), texts and levels varied
WordAt(i) ==
    [id |-> i,
     spanish |-> WordTexts[(i % Len(WordTexts)) + 1],
     cefrLevel |-> WordLevels[(i % Len(WordLevels)) + 1]]

VocabularyLists ==
    {[k \in 1..Len(ids) |-> WordAt(ids[k])] :
        ids \in InjectiveSeqsUpTo(1..MaxWords, MaxWords) \ {<<>>}}

\* Scenario B of the specification: 32 words
ScenarioBWords == [i \in 1..32 |-> WordAt(i)]

\* a second, fixed category that sorts after the first
SecondCategory ==
    [key |-> "colors", name |-> "Varit",
     words |-> <<WordAt(101), WordAt(102), WordAt(103)>>]

LessonSentences ==
    {[id |-> 1, spanish |-> <<"a", " ", "b">>, wordCount |-> 2],
     [id |-> 2, spanish |-> <<"A">>, wordCount |-> 1],
     [id |-> 3, spanish |-> <<"a", "b">>, wordCount |-> 7]}

\* word.lower().strip()
normalize_word(word) == strip(lower(word))

\* the threshold with every level below C2 given the default
get_max_word_count_default(cefr_level) ==
    IF cefr_level = "C2" THEN 20 ELSE 15

get_max_word_count_for_cefr(cefr_level) ==
    IF cefr_level = NoLevel THEN 15
    ELSE CASE cefr_level = "A1" -> 6
           [] cefr_level = "A2" -> 8
           [] cefr_level = "B1" -> 10
           [] cefr_level = "B2" -> 12
           [] cefr_level = "C1" -> 15
           [] cefr_level = "C2" -> 20
           [] OTHER -> 15

\* the scan of find_sentences_for_word: candidates in pool order, the scan
\* stopping once max_sentences * 3 candidates are held after a match
RECURSIVE find_loop(_, _, _, _, _)
find_loop(sentences, normalized_word, max_word_count, max_sentences, matching_sentences) ==
    IF sentences = <<>> THEN matching_sentences
    ELSE LET sentence == Head(sentences)
             spanish_text == normalize_word(sentence.spanish)
         IN  IF WholeWordSearch(normalized_word, spanish_text)
             THEN LET kept == IF sentence.wordCount <= max_word_count
                              THEN Append(matching_sentences, sentence)
                              ELSE matching_sentences
                  IN  IF Len(kept) >= max_sentences * 3 THEN kept
                      ELSE find_loop(Tail(sentences), normalized_word,
                                     max_word_count, max_sentences, kept)
             ELSE find_loop(Tail(sentences), normalized_word,
                            max_word_count, max_sentences, matching_sentences)

find_sentences_for_word(word_spanish, sentences, max_sentences, cefr_level) ==
    LET normalized_word == normalize_word(word_spanish)
        max_word_count == get_max_word_count_for_cefr(cefr_level)
        matching_sentences ==
            find_loop(sentences, normalized_word, max_word_count, max_sentences, <<>>)
        sorted_sentences == SortByWordCount(matching_sentences)
        limited == Slice(sorted_sentences, 0, max_sentences)
    IN  [k \in 1..Len(limited) |-> limited[k].id]

\* split_category_into_tiers with the partial last tier rounded away
split_category_into_tiers_floor(category_key, words, tier_size) ==
    LET word_count == Len(words)
    IN  IF word_count <= tier_size THEN <<1>>
        ELSE [t \in 1..(word_count \div tier_size) |-> t]

split_category_into_tiers(category_key, words, tier_size) ==
    LET word_count == Len(words)
    IN  IF word_count <= tier_size THEN <<1>>
        ELSE LET num_tiers == (word_count + tier_size - 1) \div tier_size
             IN  [t \in 1..num_tiers |-> t]

\* the lesson id: category_key, or f"{category_key}-{tier}" when split
LessonId(category_key, words, tier, tier_size) ==
    IF Len(words) <= tier_size THEN <<category_key>> ELSE <<category_key, tier>>

\* generate_lesson with the slice of a tier reaching one word too far
generate_lesson_overlap(category_key, category_name, words, tier, tier_size, sentences) ==
    LET start_idx == (tier - 1) * tier_size
        end_idx == start_idx + tier_size + 1
        tier_words == Slice(words, start_idx, end_idx)
        phrase_ids ==
            Concat([k \in 1..Len(tier_words) |->
                find_sentences_for_word(tier_words[k].spanish, sentences,
                                        MAX_SENTENCES, tier_words[k].cefrLevel)])
    IN  [id |-> LessonId(category_key, words, tier, tier_size),
         category |-> category_key, categoryName |-> category_name,
         tier |-> tier,
         words |-> [k \in 1..Len(tier_words) |-> tier_words[k].id],
         phrases |-> Unique(phrase_ids, {})]

\* generate_lesson with phrase_ids stored as collected, duplicates kept
generate_lesson_keep_duplicates(category_key, category_name, words, tier, tier_size, sentences) ==
    LET start_idx == (tier - 1) * tier_size
        end_idx == start_idx + tier_size
        tier_words == Slice(words, start_idx, end_idx)
        phrase_ids ==
            Concat([k \in 1..Len(tier_words) |->
                find_sentences_for_word(tier_words[k].spanish, sentences,
                                        MAX_SENTENCES, tier_words[k].cefrLevel)])
    IN  [id |-> LessonId(category_key, words, tier, tier_size),
         category |-> category_key, categoryName |-> category_name,
         tier |-> tier,
         words |-> [k \in 1..Len(tier_words) |-> tier_words[k].id],
         phrases |-> phrase_ids]

generate_lesson(category_key, category_name, words, tier, tier_size, sentences) ==
    LET start_idx == (tier - 1) * tier_size
        end_idx == start_idx + tier_size
        tier_words == Slice(words, start_idx, end_idx)
        word_ids == [k \in 1..Len(tier_words) |-> tier_words[k].id]
        phrase_ids ==
            Concat([k \in 1..Len(tier_words) |->
                find_sentences_for_word(tier_words[k].spanish, sentences,
                                        MAX_SENTENCES, tier_words[k].cefrLevel)])
        unique_phrase_ids == Unique(phrase_ids, {})
    IN  [id |-> LessonId(category_key, words, tier, tier_size),
         category |-> category_key, categoryName |-> category_name,
         tier |-> tier, words |-> word_ids, phrases |-> unique_phrase_ids]

\* for category_key, category_data in sorted(categories.items()): the
\* categories are held in key order
generate_all_lessons(categories, sentences, tier_size) ==
    Concat([c \in 1..Len(categories) |->
        LET category == categories[c]
            tiers == split_category_into_tiers(category.key, category.words, tier_size)
        IN  [t \in 1..Len(tiers) |->
                generate_lesson(category.key, category.name, category.words,
                                tiers[t], tier_size, sentences)]])

LessonInputs ==
    {[words |-> ws, tier_size |-> n] :
        ws \in VocabularyLists, n \in 1..MaxTierSize}
    \cup {[words |-> ScenarioBWords, tier_size |-> TIER_SIZE]}

LessonsOff ==
    /\ ls_pc = "off"
    /\ ls_categories = <<>>
    /\ ls_sentences = <<>>
    /\ ls_tier_size = 0
    /\ ls_lessons = <<>>

\* main(): sentences and vocabulary categories loaded
LessonsInit ==
    /\ ls_pc = "loaded"
    /\ \E inp \in LessonInputs, more \in {<<>>, <<SecondCategory>>} :
          /\ ls_categories =
                <<[key |-> "animals", name |-> "Elaimet", words |-> inp.words]>> \o more
          /\ ls_tier_size = inp.tier_size
    /\ ls_sentences \in SeqsUpTo(LessonSentences, MaxLessonPool)
    /\ ls_lessons = <<>>

\* main(): lessons = generate_all_lessons(categories, sentences, tier_size)
GenerateAllLessons ==
    /\ ls_pc = "loaded"
    /\ ls_lessons' = generate_all_lessons(ls_categories, ls_sentences, ls_tier_size)
    /\ ls_pc' = "generated"
    /\ UNCHANGED <<ls_categories, ls_sentences, ls_tier_size>>
    /\ UNCHANGED lsOthers

LessonsNext == GenerateAllLessons

----------------------------------------------------------------------------
(* Claims about the Lesson Tiler                                           *)

\* the lessons of one category, in the order they were generated
LessonsOf(category_key) ==
    SelectSeq(ls_lessons, LAMBDA l : l.category = category_key)

WordIds(words) == [k \in 1..Len(words) |-> words[k].id]

\* the least k with n <= k * N
CeilDiv(n, N) == CHOOSE k \in 0..n : (k - 1) * N < n /\ n <= k * N

\* C7: the lessons of a category have pairwise disjoint word id lists, and
\* their word id lists concatenated in tier order are the category's list
\* of word ids: no word lost, none repeated across tiers.
C7_TiersPartitionVocabulary ==
    ls_pc = "generated" =>
        \A c \in 1..Len(ls_categories) :
            LET L == LessonsOf(ls_categories[c].key)
            IN  /\ \A s, t \in 1..Len(L) :
                      s # t => Range(L[s].words) \cap Range(L[t].words) = {}
                /\ \A s, t \in 1..Len(L) : s < t => L[s].tier < L[t].tier
                /\ Concat([t \in 1..Len(L) |-> L[t].words])
                      = WordIds(ls_categories[c].words)

\* four words in tiers of three, beside a second category
C7_Witness ==
    /\ ls_pc = "generated"
    /\ Len(ls_categories) = 2
    /\ Len(ls_categories[1].words) = 4
    /\ ls_tier_size = 3
    /\ Len(LessonsOf("animals")) = 2
    /\ Len(LessonsOf("animals")[2].words) = 1

\* C8: n words with tier size N give ceil(n/N) lessons numbered from 1;
\* lesson t holds the words at positions (t-1)*N .. t*N-1, so every lesson
\* but the last has N words and the last has n - N*(ceil(n/N)-1).
C8_TierCountAndSlices ==
    ls_pc = "generated" =>
        \A c \in 1..Len(ls_categories) :
            LET L == LessonsOf(ls_categories[c].key)
                ids == WordIds(ls_categories[c].words)
                n == Len(ids)
                N == ls_tier_size
                k == CeilDiv(n, N)
            IN  /\ Len(L) = k
                /\ \A t \in 1..Len(L) :
                      /\ L[t].tier = t
                      /\ Len(L[t].words) = IF t < k THEN N ELSE n - N * (k - 1)
                      /\ \A p \in 1..Len(L[t].words) :
                            L[t].words[p] = ids[(t - 1) * N + p]

\* Scenario B: 32 words, tier size 15, lessons of 15, 15 and 2 words
C8_Witness ==
    /\ ls_pc = "generated"
    /\ Len(ls_categories[1].words) = 32
    /\ ls_tier_size = 15
    /\ Len(LessonsOf("animals")) = 3
    /\ Len(LessonsOf("animals")[1].words) = 15
    /\ Len(LessonsOf("animals")[2].words) = 15
    /\ Len(LessonsOf("animals")[3].words) = 2

\* the word objects of a lesson, in tier order
LessonWords(lesson) ==
    LET category == CHOOSE c \in Range(ls_categories) : c.key = lesson.category
    IN  SelectSeq(category.words, LAMBDA w : w.id \in Range(lesson.words))

\* the matched sentence ids of the words of a lesson, word after word
LessonMatches(lesson) ==
    LET tier_words == LessonWords(lesson)
    IN  Concat([k \in 1..Len(tier_words) |->
            find_sentences_for_word(tier_words[k].spanish, ls_sentences,
                                    MAX_SENTENCES, tier_words[k].cefrLevel)])

\* C21: the phrase list of a lesson has no duplicate id and is the
\* concatenation, in tier word order, of the per-word matched sentence ids
\* with every id after its first occurrence removed; every phrase id is a
\* match of a word of the tier and every match of a tier word is listed.
C21_PhrasesAreFirstOccurrences ==
    ls_pc = "generated" =>
        \A n \in 1..Len(ls_lessons) :
            LET phrases == ls_lessons[n].phrases
                all == LessonMatches(ls_lessons[n])
                keep == {i \in 1..Len(all) : \A j \in 1..(i - 1) : all[j] # all[i]}
            IN  /\ \A k, l \in 1..Len(phrases) : k # l => phrases[k] # phrases[l]
                /\ Range(phrases) = Range(all)
                /\ Len(phrases) = Cardinality(keep)
                /\ \E f \in [1..Len(phrases) -> keep] :
                      /\ \A k, l \in 1..Len(phrases) : k < l => f[k] < f[l]
                      /\ \A k \in 1..Len(phrases) : phrases[k] = all[f[k]]

\* a lesson whose words "a" and "b" both match sentence 1, which the pool
\* holds twice: four matched ids collected, one phrase kept
C21_Witness ==
    /\ ls_pc = "generated"
    /\ ls_sentences = <<[id |-> 1, spanish |-> <<"a", " ", "b">>, wordCount |-> 2],
                        [id |-> 1, spanish |-> <<"a", " ", "b">>, wordCount |-> 2]>>
    /\ \E n \in 1..Len(ls_lessons) :
          /\ Len(LessonMatches(ls_lessons[n])) = 4
          /\ ls_lessons[n].phrases = <<1>>

----------------------------------------------------------------------------
(* Sentence Indexer: generate_word_to_sentences_mapping.py                 *)

MaxIndexPool == 6
INDEX_CAP == 5

\* what a shard record gives the indexer: the Spanish text and wordCount
IndexSentenceData ==
    {[spanish |-> <<"A">>, wordCount |-> 1],
     [spanish |-> <<"b", " ", "a", ".">>, wordCount |-> 3],
     [spanish |-> <<"a", "b">>, wordCount |-> 2]}

\* words_map in sorted key order; the word id is the Spanish word
IndexWords == <<<<"B">>, <<"a">>, <<"a", "b">>>>

\* sentences_map: a dict keyed by sentence id, held in insertion order
IndexPools ==
    UNION {{[i \in 1..n |-> [id |-> i, spanish |-> d[i].spanish,
                             wordCount |-> d[i].wordCount]] :
                d \in [1..n -> IndexSentenceData]} : n \in 1..MaxIndexPool}

find_word_in_sentence(word_lower, sentence_spanish) ==
    LET sentence_lower == lower(sentence_spanish)
    IN  WholeWordSearch(word_lower, sentence_lower)

\* the entry of one word with the ids cut to the cap before they are sorted
index_entry_cap_first(word_spanish, sentences_map) ==
    LET word_lower == lower(word_spanish)
        matching == SelectSeq(sentences_map,
                        LAMBDA s : find_word_in_sentence(word_lower, s.spanish))
        limited == Slice(matching, 0, INDEX_CAP)
        sorted_ids == SortByWordCount(limited)
    IN  [k \in 1..Len(sorted_ids) |-> sorted_ids[k].id]

\* the entry of one word with the matches left in pool order
index_entry_unsorted(word_spanish, sentences_map) ==
    LET word_lower == lower(word_spanish)
        matching == SelectSeq(sentences_map,
                        LAMBDA s : find_word_in_sentence(word_lower, s.spanish))
        limited == Slice(matching, 0, INDEX_CAP)
    IN  [k \in 1..Len(limited) |-> limited[k].id]

\* the body of the loop of generate_mapping for one word: the matching
\* sentence ids, sorted by wordCount and cut to five
index_entry(word_spanish, sentences_map) ==
    LET word_lower == lower(word_spanish)
        matching_sentence_ids ==
            SelectSeq(sentences_map,
                LAMBDA s : find_word_in_sentence(word_lower, s.spanish))
        sorted_ids == SortByWordCount(matching_sentence_ids)
        limited_ids == Slice(sorted_ids, 0, INDEX_CAP)
    IN  [k \in 1..Len(limited_ids) |-> limited_ids[k].id]

\* mapping[word_id] is set only `if matching_sentence_ids`
generate_mapping(words_map, sentences_map) ==
    LET matched == {w \in Range(words_map) : index_entry(w, sentences_map) # <<>>}
    IN  [w \in matched |-> index_entry(w, sentences_map)]

IndexOff ==
    /\ ix_pc = "off"
    /\ ix_words = <<>>
    /\ ix_sentences = <<>>
    /\ ix_mapping = <<>>

\* main(): words_map and sentences_map loaded, both non-empty
IndexInit ==
    /\ ix_pc = "loaded"
    /\ ix_words = IndexWords
    /\ ix_sentences \in IndexPools
    /\ ix_mapping = <<>>

\* main(): mapping = generate_mapping(words_map, sentences_map)
GenerateMapping ==
    /\ ix_pc = "loaded"
    /\ ix_mapping' = generate_mapping(ix_words, ix_sentences)
    /\ ix_pc' = "mapped"
    /\ UNCHANGED <<ix_words, ix_sentences>>
    /\ UNCHANGED ixOthers

IndexNext == GenerateMapping

----------------------------------------------------------------------------
(* Claims about the Sentence Indexer                                       *)

\* the pool sentence with the given id
PoolSentence(sid) == CHOOSE s \in Range(ix_sentences) : s.id = sid

\* the ids of the pool sentences that hold the word as a whole token
MatchingIds(w) ==
    {s.id : s \in {x \in Range(ix_sentences) :
                      find_word_in_sentence(lower(w), x.spanish)}}

\* the ids the index holds for a word (none when the word has no entry)
EntryOf(w) == IF w \in DOMAIN ix_mapping THEN ix_mapping[w] ELSE <<>>

Min(a, b) == IF a < b THEN a ELSE b

\* C9: every entry of the reverse index holds at most the cap (5) sentence
\* ids, all distinct, in non-decreasing order of the sentences' wordCount.
C9_EntriesCappedAndSorted ==
    ix_pc = "mapped" =>
        \A w \in DOMAIN ix_mapping :
            LET e == ix_mapping[w]
            IN  /\ Len(e) <= INDEX_CAP
                /\ \A k, l \in 1..Len(e) : k # l => e[k] # e[l]
                /\ \A k, l \in 1..Len(e) :
                      k < l => PoolSentence(e[k]).wordCount <= PoolSentence(e[l]).wordCount

\* six matches of "a" with the longest ones first in the pool: the entry
\* holds five ids, the shortest sentence first
C9_Witness ==
    /\ ix_pc = "mapped"
    /\ Len(ix_sentences) = 6
    /\ Cardinality(MatchingIds(<<"a">>)) = 6
    /\ ix_sentences[1].wordCount = 3
    /\ ix_sentences[6].wordCount = 1
    /\ Len(ix_mapping[<<"a">>]) = 5
    /\ ix_mapping[<<"a">>][1] = 6

\* C10: the entry of a word is exactly the min(cap, m) matching sentences
\* of smallest wordCount, m being the number of matching sentences: every
\* id is a match, and no match left out is strictly shorter than one held.
C10_ShortestMatchesKept ==
    ix_pc = "mapped" =>
        \A w \in Range(ix_words) :
            LET e == EntryOf(w)
                M == MatchingIds(w)
            IN  /\ Range(e) \subseteq M
                /\ Cardinality(Range(e)) = Min(INDEX_CAP, Cardinality(M))
                /\ \A out \in M \ Range(e) : \A k \in 1..Len(e) :
                      PoolSentence(out).wordCount >= PoolSentence(e[k]).wordCount

\* six matches, the only one-word sentence last in the pool: it is in the
\* entry and a three-word sentence is the one left out
C10_Witness ==
    /\ ix_pc = "mapped"
    /\ Len(ix_sentences) = 6
    /\ Cardinality(MatchingIds(<<"a">>)) = 6
    /\ \A i \in 1..5 : ix_sentences[i].wordCount = 3
    /\ ix_sentences[6].wordCount = 1
    /\ 6 \in Range(ix_mapping[<<"a">>])
    /\ Cardinality(MatchingIds(<<"a">>) \ Range(ix_mapping[<<"a">>])) = 1

\* C11: every vocabulary word given to the indexer is a key of the mapping,
\* and a word that matches no sentence is mapped to the empty list.
C11_EveryWordIsKey ==
    ix_pc = "mapped" =>
        \A w \in Range(ix_words) :
            /\ w \in DOMAIN ix_mapping
            /\ (MatchingIds(w) = {} => ix_mapping[w] = <<>>)

----------------------------------------------------------------------------
(* Corpus Loader and Triple Resolver: tatoeba_download.load_raw_sentences, *)
(* followed by the Deduplicator and the Classifier, run twice on the same  *)
(* sentences.csv and links.csv                                             *)

MaxLinkRows == 4

LANG_SPA == "spa"
LANG_FIN == "fin"
LANG_ENG == "eng"

\* sentences.csv: two Spanish sentences (with the same text or not), two
\* Finnish ones, an English one and one of a language that is not loaded
SentenceTables ==
    {<< <<"s1", "spa", <<"a">>>>,
        <<"s2", "spa", t2>>,
        <<"f3", "fin", <<"a">>>>,
        <<"f4", "fin", <<"b">>>>,
        <<"e5", "eng", <<"a">>>>,
        <<"d6", "deu", <<"a">>>> >> : t2 \in {<<"a">>, <<"b">>}}

\* rows of links.csv, in either column order; the last one links a Spanish
\* sentence to a sentence that load_sentences does not keep
LinkRows ==
    {<<"s1", "f3">>, <<"f4", "s1">>, <<"s1", "e5">>, <<"s2", "f3">>, <<"e5", "s2">>,
     <<"s1", "d6">>}

\* the rule configuration the classifier stage runs with
PipelineCategories ==
    << [id |-> "greetings", priority |-> 1, keywords |-> <<<<"a">>>>, patterns |-> <<>>],
       [id |-> "food", priority |-> 2, keywords |-> <<>>, patterns |-> <<<<"b">>>>] >>

\* d[key] = value on a dict held as a sequence of entries in insertion
\* order: an existing key keeps its place
RECURSIVE DictPut(_, _, _)
DictPut(d, key, entry) ==
    IF d = <<>> THEN <<entry>>
    ELSE IF Head(d).key = key THEN <<entry>> \o Tail(d)
    ELSE <<Head(d)>> \o DictPut(Tail(d), key, entry)

DictKeys(d) == {d[i].key : i \in 1..Len(d)}

RECURSIVE load_sentences(_, _)
load_sentences(rows, sent_text) ==
    IF rows = <<>> THEN sent_text
    ELSE LET row == Head(rows)
         IN  IF Len(row) < 3 THEN load_sentences(Tail(rows), sent_text)
             ELSE IF row[2] \in {LANG_SPA, LANG_FIN, LANG_ENG}
             THEN load_sentences(Tail(rows),
                      DictPut(sent_text, row[1],
                              [key |-> row[1], lang |-> row[2], text |-> row[3]]))
             ELSE load_sentences(Tail(rows), sent_text)

\* neighbors[a].add(b) on a defaultdict(set)
AddNeighbor(neighbors, a, b) ==
    [x \in DOMAIN neighbors \cup {a} |->
        IF x = a
        THEN (IF a \in DOMAIN neighbors THEN neighbors[a] ELSE {}) \cup {b}
        ELSE neighbors[x]]

\* load_links recording a link under its first id only
RECURSIVE load_links_one_way(_, _)
load_links_one_way(rows, neighbors) ==
    IF rows = <<>> THEN neighbors
    ELSE LET row == Head(rows)
         IN  IF Len(row) < 2 THEN load_links_one_way(Tail(rows), neighbors)
             ELSE load_links_one_way(Tail(rows),
                      AddNeighbor(neighbors, row[1], row[2]))

RECURSIVE load_links(_, _)
load_links(rows, neighbors) ==
    IF rows = <<>> THEN neighbors
    ELSE LET row == Head(rows)
         IN  IF Len(row) < 2 THEN load_links(Tail(rows), neighbors)
             ELSE load_links(Tail(rows),
                      AddNeighbor(AddNeighbor(neighbors, row[1], row[2]),
                                  row[2], row[1]))

\* the orders in which iterating a set of str can yield its members: the
\* hash of a str is salted per process, so the order is any permutation
IterationOrders(S) ==
    {f \in [1..Cardinality(S) -> S] :
        \A i, j \in 1..Cardinality(S) : i # j => f[i] # f[j]}

\* sent_text[sid]
SentText(sent_text, sid) == CHOOSE e \in Range(sent_text) : e.key = sid

\* the linked ids that are loaded, of whichever language
LinkedOfAnyLanguage(order, sent_text, lang) ==
    SelectSeq(order, LAMBDA sid : sid \in DictKeys(sent_text))

\* [sid for sid in linked_ids if sid in sent_text and sent_text[sid][0] == lang]
LinkedOfLanguage(order, sent_text, lang) ==
    SelectSeq(order, LAMBDA sid :
        sid \in DictKeys(sent_text) /\ SentText(sent_text, sid).lang = lang)

\* one iteration of the loop over sent_text.items(), with linked_ids
\* iterated in the given order: the new value of spa_to_triple
resolve_sentence(entry, order, sent_text, spa_to_triple) ==
    IF entry.lang # LANG_SPA THEN spa_to_triple
    ELSE IF entry.text \in DictKeys(spa_to_triple) THEN spa_to_triple
    ELSE LET fin_ids == LinkedOfLanguage(order, sent_text, LANG_FIN)
             eng_ids == LinkedOfLanguage(order, sent_text, LANG_ENG)
         IN  IF fin_ids = <<>> \/ eng_ids = <<>> THEN spa_to_triple
             ELSE DictPut(spa_to_triple, entry.text,
                      [key |-> entry.text,
                       spa_id |-> entry.key, fin_id |-> fin_ids[1], eng_id |-> eng_ids[1],
                       spa |-> entry.text,
                       fin |-> SentText(sent_text, fin_ids[1]).text,
                       eng |-> SentText(sent_text, eng_ids[1]).text])

\* list(spa_to_triple.values())
TripleValues(spa_to_triple) ==
    [k \in 1..Len(spa_to_triple) |->
        [spa_id |-> spa_to_triple[k].spa_id, fin_id |-> spa_to_triple[k].fin_id,
         eng_id |-> spa_to_triple[k].eng_id, spa |-> spa_to_triple[k].spa,
         fin |-> spa_to_triple[k].fin, eng |-> spa_to_triple[k].eng]]

\* groups[category_id].append(sentence) for every category of every
\* sentence; 'general' exists even if empty
group_by_category(sentences, categories) ==
    LET present == UNION {Range(sentences[i].categories) : i \in 1..Len(sentences)}
    IN  [cid \in present \cup {"general"} |->
            Concat([i \in 1..Len(sentences) |->
                [k \in 1..Len(SelectSeq(sentences[i].categories, LAMBDA c : c = cid))
                    |-> sentences[i]]])]

NoOutput == [triples |-> <<>>, deduped |-> <<>>, sentences |-> <<>>, groups |-> <<>>]

PipelineOff ==
    /\ pl_pc = "off"
    /\ pl_run = 0
    /\ pl_sentences_csv = <<>>
    /\ pl_links_csv = <<>>
    /\ pl_sent_text = <<>>
    /\ pl_neighbors = <<>>
    /\ pl_i = 0
    /\ pl_spa_to_triple = <<>>
    /\ pl_work = NoOutput
    /\ pl_out = <<>>

\* the two input tables are on disk and the first run starts
PipelineInit ==
    /\ pl_pc = "load_sentences"
    /\ pl_run = 1
    /\ pl_sentences_csv \in SentenceTables
    /\ pl_links_csv \in SeqsUpTo(LinkRows, MaxLinkRows)
    /\ pl_sent_text = <<>>
    /\ pl_neighbors = <<>>
    /\ pl_i = 0
    /\ pl_spa_to_triple = <<>>
    /\ pl_work = NoOutput
    /\ pl_out = <<>>

\* load_raw_sentences: sent_text = load_sentences(sentences_csv)
LoadSentences ==
    /\ pl_pc = "load_sentences"
    /\ pl_sent_text' = load_sentences(pl_sentences_csv, <<>>)
    /\ pl_pc' = "load_links"
    /\ UNCHANGED <<pl_run, pl_sentences_csv, pl_links_csv, pl_neighbors, pl_i,
                   pl_spa_to_triple, pl_work, pl_out>>
    /\ UNCHANGED plOthers

\* load_raw_sentences: neighbors = load_links(links_csv)
LoadLinks ==
    /\ pl_pc = "load_links"
    /\ pl_neighbors' = load_links(pl_links_csv, <<>>)
    /\ pl_i' = 1
    /\ pl_spa_to_triple' = <<>>
    /\ pl_pc' = "resolve"
    /\ UNCHANGED <<pl_run, pl_sentences_csv, pl_links_csv, pl_sent_text, pl_work, pl_out>>
    /\ UNCHANGED plOthers

\* load_raw_sentences: one iteration of `for spa_id, (lang, spa_txt) in
\* sent_text.items()`, the set neighbors.get(spa_id, set()) iterated in
\* whichever order this process gives it
ResolveSentence ==
    /\ pl_pc = "resolve"
    /\ pl_i <= Len(pl_sent_text)
    /\ LET entry == pl_sent_text[pl_i]
           linked_ids == IF entry.key \in DOMAIN pl_neighbors
                         THEN pl_neighbors[entry.key] ELSE {}
       IN  \E order \in IterationOrders(linked_ids) :
              pl_spa_to_triple' =
                  resolve_sentence(entry, order, pl_sent_text, pl_spa_to_triple)
    /\ pl_i' = pl_i + 1
    /\ UNCHANGED <<pl_pc, pl_run, pl_sentences_csv, pl_links_csv, pl_sent_text,
                   pl_neighbors, pl_work, pl_out>>
    /\ UNCHANGED plOthers

\* load_raw_sentences returns list(spa_to_triple.values()), and main()
\* deduplicates it and saves the result
PipelineDeduplicate ==
    /\ pl_pc = "resolve"
    /\ pl_i > Len(pl_sent_text)
    /\ LET results == TripleValues(pl_spa_to_triple)
       IN  pl_work' = [pl_work EXCEPT
                          !.triples = results,
                          !.deduped = deduplicate_sentences(results).deduped]
    /\ pl_pc' = "categorize"
    /\ UNCHANGED <<pl_run, pl_sentences_csv, pl_links_csv, pl_sent_text,
                   pl_neighbors, pl_i, pl_spa_to_triple, pl_out>>
    /\ UNCHANGED plOthers

\* tatoeba_categorize.main(): convert_to_sentence_objects, then
\* group_by_category; the groups are what write_output_files serialises
PipelineCategorize ==
    /\ pl_pc = "categorize"
    /\ LET sentences == convert_to_sentence_objects(pl_work.deduped, PipelineCategories)
           done == [pl_work EXCEPT
                       !.sentences = sentences,
                       !.groups = group_by_category(sentences, PipelineCategories)]
       IN  /\ pl_work' = done
           /\ pl_out' = Append(pl_out, done)
    /\ pl_pc' = "done"
    /\ UNCHANGED <<pl_run, pl_sentences_csv, pl_links_csv, pl_sent_text,
                   pl_neighbors, pl_i, pl_spa_to_triple>>
    /\ UNCHANGED plOthers

\* the pipeline is started again, in a new process, on the same two tables
RunAgain ==
    /\ pl_pc = "done"
    /\ pl_run = 1
    /\ pl_run' = 2
    /\ pl_pc' = "load_sentences"
    /\ pl_sent_text' = <<>>
    /\ pl_neighbors' = <<>>
    /\ pl_i' = 0
    /\ pl_spa_to_triple' = <<>>
    /\ pl_work' = NoOutput
    /\ UNCHANGED <<pl_sentences_csv, pl_links_csv, pl_out>>
    /\ UNCHANGED plOthers

PipelineNext ==
    \/ LoadSentences
    \/ LoadLinks
    \/ ResolveSentence
    \/ PipelineDeduplicate
    \/ PipelineCategorize
    \/ RunAgain

----------------------------------------------------------------------------
(* Claims about the whole pipeline                                         *)

\* C1: running Loader -> Resolver -> Deduplicator -> Classifier -> Writer
\* twice on the same sentence table and link table yields the same triples
\* and the same shard contents (the category groups the Writer serialises),
\* also when a Spanish sentence has several linked candidates in a target
\* language.
C1_PipelineIdempotent ==
    (pl_run = 2 /\ pl_pc = "done") =>
        /\ pl_out[1].triples = pl_out[2].triples
        /\ pl_out[1].deduped = pl_out[2].deduped
        /\ pl_out[1].sentences = pl_out[2].sentences
        /\ pl_out[1].groups = pl_out[2].groups

----------------------------------------------------------------------------
(* Claims about the Triple Resolver                                        *)

\* the entries of sent_text that are Spanish and have at least one linked
\* Finnish and at least one linked English sentence in sent_text
ResolvableSpanish ==
    {e \in Range(pl_sent_text) :
        /\ e.lang = LANG_SPA
        /\ e.key \in DOMAIN pl_neighbors
        /\ \E f, g \in pl_neighbors[e.key] \cap DictKeys(pl_sent_text) :
              /\ SentText(pl_sent_text, f).lang = LANG_FIN
              /\ SentText(pl_sent_text, g).lang = LANG_ENG}

\* C14: the resolver emits exactly one triple for every Spanish sentence
\* that has a linked Finnish and a linked English sentence and none for any
\* other, so two resolvable Spanish sentences with the same text each give
\* a triple in the resolver's output (the list the Deduplicator receives).
C14_OneTriplePerResolvable ==
    pl_pc \in {"categorize", "done"} =>
        /\ \A e \in ResolvableSpanish :
              Cardinality({k \in 1..Len(pl_work.triples) :
                              pl_work.triples[k].spa_id = e.key}) = 1
        /\ \A k \in 1..Len(pl_work.triples) :
              \E e \in ResolvableSpanish : e.key = pl_work.triples[k].spa_id

\* C23: every triple the resolver emits names one Finnish and one English
\* id, each in the adjacency set of the triple's Spanish id and each a
\* loaded sentence of that language whose loaded text is the text in the
\* triple; a linked id that is not in the loaded mapping is never chosen.
C23_TripleIdsLinkedAndLoaded ==
    pl_pc \in {"categorize", "done"} =>
        \A k \in 1..Len(pl_work.triples) :
            LET t == pl_work.triples[k]
                loaded(sid, lang, text) ==
                    \E e \in Range(pl_sent_text) :
                        e.key = sid /\ e.lang = lang /\ e.text = text
            IN  /\ loaded(t.spa_id, LANG_SPA, t.spa)
                /\ t.spa_id \in DOMAIN pl_neighbors
                /\ t.fin_id \in pl_neighbors[t.spa_id]
                /\ t.eng_id \in pl_neighbors[t.spa_id]
                /\ loaded(t.fin_id, LANG_FIN, t.fin)
                /\ loaded(t.eng_id, LANG_ENG, t.eng)

\* s1 is linked to the German d6, which is not loaded, to two Finnish
\* sentences and to an English one, and a triple for s1 is emitted
C23_Witness ==
    /\ pl_pc = "done"
    /\ "s1" \in DOMAIN pl_neighbors
    /\ pl_neighbors["s1"] = {"d6", "f3", "f4", "e5"}
    /\ "d6" \notin DictKeys(pl_sent_text)
    /\ \E k \in 1..Len(pl_work.triples) :
          pl_work.triples[k].spa_id = "s1" /\ pl_work.triples[k].fin_id = "f4"

\* the link table with the two ids of row i exchanged
SwapRow(rows, i) == [rows EXCEPT ![i] = <<rows[i][2], rows[i][1]>>]

\* the values spa_to_triple can have after the loop over sent_text.items()
\* from entry i on, over every iteration order of the adjacency sets
RECURSIVE ResolveOutcomes(_, _, _, _)
ResolveOutcomes(sent_text, neighbors, i, spa_to_triple) ==
    IF i > Len(sent_text) THEN {spa_to_triple}
    ELSE IF sent_text[i].lang # LANG_SPA
    THEN ResolveOutcomes(sent_text, neighbors, i + 1, spa_to_triple)
    ELSE LET linked_ids == IF sent_text[i].key \in DOMAIN neighbors
                           THEN neighbors[sent_text[i].key] ELSE {}
         IN  UNION {ResolveOutcomes(sent_text, neighbors, i + 1,
                        resolve_sentence(sent_text[i], order, sent_text, spa_to_triple)) :
                    order \in IterationOrders(linked_ids)}

\* C24: after load_links the adjacency is symmetric (b is in the set of a
\* exactly when a is in the set of b), whichever id stood first in a row,
\* and the triples the resolver can emit are the same when the two ids of
\* any link row are exchanged.
C24_LinksSymmetric ==
    pl_pc \in {"resolve", "categorize", "done"} =>
        /\ \A a \in DOMAIN pl_neighbors : \A b \in pl_neighbors[a] :
              b \in DOMAIN pl_neighbors /\ a \in pl_neighbors[b]
        /\ \A i \in 1..Len(pl_links_csv) :
              /\ pl_links_csv[i][1] \in pl_neighbors[pl_links_csv[i][2]]
              /\ pl_links_csv[i][2] \in pl_neighbors[pl_links_csv[i][1]]
        /\ LET outcomes == ResolveOutcomes(pl_sent_text, pl_neighbors, 1, <<>>)
           IN  /\ pl_pc = "categorize" => pl_spa_to_triple \in outcomes
               /\ (pl_pc = "resolve" /\ pl_i = 1 /\ pl_run = 1) =>
                     \A i \in 1..Len(pl_links_csv) :
                         ResolveOutcomes(pl_sent_text,
                             load_links(SwapRow(pl_links_csv, i), <<>>), 1, <<>>)
                                 = outcomes

\* the rows f4-s1 and e5-s2 name the Spanish id second, s2-f3 names it
\* first; the triple of s2 takes e5 from the row that names s2 second
C24_Witness ==
    /\ pl_pc = "categorize"
    /\ pl_links_csv = <<<<"f4", "s1">>, <<"e5", "s2">>, <<"s2", "f3">>>>
    /\ pl_neighbors["f3"] = {"s2"}
    /\ \E k \in 1..Len(pl_work.triples) :
          /\ pl_work.triples[k].spa_id = "s2"
          /\ pl_work.triples[k].eng_id = "e5"

----------------------------------------------------------------------------
(* Corpus Loader on tables with malformed rows:                            *)
(* tatoeba_download.load_sentences and load_links, row by row              *)

MaxSentenceRows == 3
MaxLoaderLinks == 2

\* rows of sentences.csv: two well-formed rows of loaded languages, one of
\* a language that is not loaded, a row with two fields and one with four
LoaderSentenceRows ==
    {<<"s1", "spa", <<"a">>>>,
     <<"f3", "fin", <<"b">>>>,
     <<"d6", "deu", <<"a">>>>,
     <<"s2", "spa">>,
     <<"s2", "spa", <<"b">>, <<"a">>>>}

\* rows of links.csv: a well-formed row, one with one field, one with three
LoaderLinkRows ==
    {<<"s1", "f3">>, <<"s2">>, <<"s2", "f3", "e5">>}

LoaderOff ==
    /\ ld_pc = "off"
    /\ ld_sentences_csv = <<>>
    /\ ld_links_csv = <<>>
    /\ ld_i = 0
    /\ ld_sent_text = <<>>
    /\ ld_neighbors = <<>>

\* load_sentences has opened sentences.csv; sent_text = {}
LoaderInit ==
    /\ ld_pc = "sentences"
    /\ ld_sentences_csv \in SeqsUpTo(LoaderSentenceRows, MaxSentenceRows)
    /\ ld_links_csv \in SeqsUpTo(LoaderLinkRows, MaxLoaderLinks)
    /\ ld_i = 1
    /\ ld_sent_text = <<>>
    /\ ld_neighbors = <<>>

\* load_sentences: one iteration of `for row in reader`
LoadSentenceRow ==
    /\ ld_pc = "sentences"
    /\ ld_i <= Len(ld_sentences_csv)
    /\ ld_sent_text' = load_sentences(<<ld_sentences_csv[ld_i]>>, ld_sent_text)
    /\ ld_i' = ld_i + 1
    /\ UNCHANGED <<ld_pc, ld_sentences_csv, ld_links_csv, ld_neighbors>>
    /\ UNCHANGED ldOthers

\* load_sentences returns and load_links opens links.csv
OpenLinks ==
    /\ ld_pc = "sentences"
    /\ ld_i > Len(ld_sentences_csv)
    /\ ld_pc' = "links"
    /\ ld_i' = 1
    /\ UNCHANGED <<ld_sentences_csv, ld_links_csv, ld_sent_text, ld_neighbors>>
    /\ UNCHANGED ldOthers

\* load_links: one iteration of `for row in reader`
LoadLinkRow ==
    /\ ld_pc = "links"
    /\ ld_i <= Len(ld_links_csv)
    /\ ld_neighbors' = load_links(<<ld_links_csv[ld_i]>>, ld_neighbors)
    /\ ld_i' = ld_i + 1
    /\ UNCHANGED <<ld_pc, ld_sentences_csv, ld_links_csv, ld_sent_text>>
    /\ UNCHANGED ldOthers

\* load_links returns
LoaderDone ==
    /\ ld_pc = "links"
    /\ ld_i > Len(ld_links_csv)
    /\ ld_pc' = "done"
    /\ UNCHANGED <<ld_sentences_csv, ld_links_csv, ld_i, ld_sent_text, ld_neighbors>>
    /\ UNCHANGED ldOthers

LoaderNext == LoadSentenceRow \/ OpenLinks \/ LoadLinkRow \/ LoaderDone

----------------------------------------------------------------------------
(* Claims about the Corpus Loader                                          *)

\* the rows of a table that have exactly n fields
RowsOfFieldCount(rows, n) == SelectSeq(rows, LAMBDA row : Len(row) = n)

\* C15: a sentence row without exactly 3 fields and a link row without
\* exactly 2 fields, too short or too long, adds nothing: the sentence
\* mapping and the adjacency are those of the tables without such rows.
C15_WrongFieldCountSkipped ==
    ld_pc = "done" =>
        /\ ld_sent_text = load_sentences(RowsOfFieldCount(ld_sentences_csv, 3), <<>>)
        /\ ld_neighbors = load_links(RowsOfFieldCount(ld_links_csv, 2), <<>>)

----------------------------------------------------------------------------
(* Output Writer: tatoeba_categorize.write_output_files, one file write    *)
(* per step, the process possibly stopping between two writes              *)

MaxShardSentences == 4

\* the byte budget of a shard, scaled down from 500 * 1024 so that a list
\* of three short records, or of one long and one short record, exceeds it
MAX_FILE_SIZE == 330

NoPart == 0
ManifestFile == <<"index", NoPart>>

DigitChars == <<"0", "1", "2", "3", "4", "5", "6", "7", "8", "9">>

\* str(n) for 0 <= n < 100
DecimalDigits(n) ==
    IF n < 10 THEN <<DigitChars[n + 1]>>
    ELSE <<DigitChars[(n \div 10) + 1], DigitChars[(n % 10) + 1]>>

DigitValue(c) == (CHOOSE i \in 1..10 : DigitChars[i] = c) - 1

\* int(digits)
RECURSIVE ParseDecimal(_, _)
ParseDecimal(digits, acc) ==
    IF digits = <<>> THEN acc
    ELSE ParseDecimal(Tail(digits), 10 * acc + DigitValue(Head(digits)))

\* json.dumps of one character of a str with ensure_ascii=False: the quote
\* and the backslash are escaped, every other character is written as it is
JsonEscape(c) ==
    CASE c = "\"" -> <<"\\", "\"">>
      [] c = "\\" -> <<"\\", "\\">>
      [] OTHER    -> <<c>>

\* json.dumps of a str: the escaped characters between two quotes
json_encode_str(s) ==
    <<"\"">> \o Concat([i \in 1..Len(s) |-> JsonEscape(s[i])]) \o <<"\"">>

\* the characters between the quotes, a backslash giving the character
\* that follows it
RECURSIVE JsonUnescape(_)
JsonUnescape(b) ==
    IF b = <<>> THEN <<>>
    ELSE IF Head(b) = "\\" THEN <<b[2]>> \o JsonUnescape(SubSeq(b, 3, Len(b)))
    ELSE <<Head(b)>> \o JsonUnescape(Tail(b))

\* json.loads of an encoded str
json_decode_str(b) == JsonUnescape(SubSeq(b, 2, Len(b) - 1))

\* the number of bytes of one character in UTF-8
Utf8Bytes(c) == IF c = "ñ" THEN 2 ELSE 1

RECURSIVE ByteLen(_)
ByteLen(b) == IF b = <<>> THEN 0 ELSE Utf8Bytes(Head(b)) + ByteLen(Tail(b))

\* the characters of a category id
CategoryIdChars(category_id) ==
    CASE category_id = "greetings" -> <<"g", "r", "e", "e", "t", "i", "n", "g", "s">>
      [] category_id = "food"      -> <<"f", "o", "o", "d">>
      [] category_id = "general"   -> <<"g", "e", "n", "e", "r", "a", "l">>

\* the category id with the given characters
CategoryIdOfChars(chars) ==
    CHOOSE category_id \in {"greetings", "food", "general"} :
        CategoryIdChars(category_id) = chars

\* one record of sentence_dicts as json.dump writes it: every str encoded,
\* wordCount in decimal
json_encode_sentence(s) ==
    [id |-> json_encode_str(s.id),
     spanish |-> json_encode_str(s.spanish),
     finnish |-> json_encode_str(s.finnish),
     english |-> json_encode_str(s.english),
     wordCount |-> DecimalDigits(s.wordCount),
     categories |-> [k \in 1..Len(s.categories) |->
                        json_encode_str(CategoryIdChars(s.categories[k]))]]

json_decode_sentence(e) ==
    [id |-> json_decode_str(e.id),
     spanish |-> json_decode_str(e.spanish),
     finnish |-> json_decode_str(e.finnish),
     english |-> json_decode_str(e.english),
     wordCount |-> ParseDecimal(e.wordCount, 0),
     categories |-> [k \in 1..Len(e.categories) |->
                        CategoryIdOfChars(json_decode_str(e.categories[k]))]]

\* json.dump(sentence_dicts, f, ensure_ascii=False, indent=2): the file
json_dump(sentence_dicts) ==
    [k \in 1..Len(sentence_dicts) |-> json_encode_sentence(sentence_dicts[k])]

\* json.load(f) of a shard file
json_load(content) ==
    [k \in 1..Len(content) |-> json_decode_sentence(content[k])]

RECURSIVE SumSeq(_)
SumSeq(ns) == IF ns = <<>> THEN 0 ELSE Head(ns) + SumSeq(Tail(ns))

\* bytes of a list of encoded str at nesting depth `depth` under indent=2:
\* "[]" when empty, else "[", each item on its own line indented by
\* 2 * (depth + 1) spaces, commas between, and "]" on a line of its own
JsonStrListBytes(items, depth) ==
    IF items = <<>> THEN 2
    ELSE 1 + SumSeq([k \in 1..Len(items) |-> 1 + 2 * (depth + 1) + ByteLen(items[k])])
           + (Len(items) - 1) + 1 + 2 * depth + 1

\* bytes of `"key": value` on a line of its own inside an object at depth 1
JsonMemberBytes(key_len, value_bytes) == 1 + 4 + (key_len + 2) + 2 + value_bytes

\* bytes of one encoded record inside the top-level list: "  {", the six
\* members with commas between, and "  }" on a line of its own
JsonSentenceBytes(e) ==
    3 + JsonMemberBytes(2, ByteLen(e.id))
      + JsonMemberBytes(7, ByteLen(e.spanish))
      + JsonMemberBytes(7, ByteLen(e.finnish))
      + JsonMemberBytes(7, ByteLen(e.english))
      + JsonMemberBytes(9, Len(e.wordCount))
      + JsonMemberBytes(10, JsonStrListBytes(e.categories, 2))
      + 5 + 4

\* len(json.dumps(sentence_dicts, ensure_ascii=False, indent=2).encode('utf-8'))
JsonBytes(content) ==
    IF content = <<>> THEN 2
    ELSE 1 + SumSeq([k \in 1..Len(content) |-> 1 + JsonSentenceBytes(content[k])])
           + (Len(content) - 1) + 2

\* the rule configuration: ids and priorities (general is not configured)
WriterCategories ==
    << [id |-> "greetings", priority |-> 1, keywords |-> <<>>, patterns |-> <<>>],
       [id |-> "food", priority |-> 2, keywords |-> <<>>, patterns |-> <<>>] >>

\* what the classifier hands on for one sentence, the id left out: a short
\* record, one of two categories whose texts hold a quote, a backslash and
\* a two-byte character, and a long record
WriterSentenceData ==
    {[spanish |-> <<"a">>, finnish |-> <<"b">>, english |-> <<"a">>,
      wordCount |-> 1, categories |-> <<"greetings">>],
     [spanish |-> <<"a", " ", "\"", "b", "\"">>, finnish |-> <<"\\">>,
      english |-> <<"ñ">>, wordCount |-> 2, categories |-> <<"greetings", "food">>],
     [spanish |-> <<"a", " ", "a", " ", "a", " ", "a", " ", "a", " ",
                    "a", " ", "a", " ", "a", " ", "a", " ", "a">>,
      finnish |-> <<"b">>, english |-> <<"a">>,
      wordCount |-> 10, categories |-> <<"greetings">>]}

\* the Sentence objects of a run: ids are unique, the id is the position
WriterSentenceLists(n) ==
    UNION {{[i \in 1..m |->
                [id |-> DecimalDigits(i), spanish |-> d[i].spanish,
                 finnish |-> d[i].finnish, english |-> d[i].english,
                 wordCount |-> d[i].wordCount, categories |-> d[i].categories]] :
              d \in [1..m -> WriterSentenceData]} : m \in 0..n}

\* the Sentence objects of the second run: none, or one of the records
WriterRerunLists == WriterSentenceLists(1)

\* category_by_id.get(item[0], Category(item[0], 999, [])).priority
CategoryPriority(category_id, categories) ==
    IF \E c \in Range(categories) : c.id = category_id
    THEN (CHOOSE c \in Range(categories) : c.id = category_id).priority
    ELSE 999

\* sorted(groups.items(), key=priority); the priorities are distinct
sorted_categories(groups, categories) ==
    LET ids == DOMAIN groups
        Pos(c) == 1 + Cardinality({d \in ids :
                        CategoryPriority(d, categories) < CategoryPriority(c, categories)})
    IN  [p \in 1..Cardinality(ids) |->
            LET c == CHOOSE c \in ids : Pos(c) = p
            IN  [id |-> c, sentences |-> groups[c]]]

\* num_parts = (len(json_bytes) // MAX_FILE_SIZE) + 1
num_parts(json_bytes_len) == (json_bytes_len \div MAX_FILE_SIZE) + 1

\* sentences_per_part with the + 1 left out
sentences_per_part_floor(sentence_count, parts) == sentence_count \div parts

\* sentences_per_part = len(sentence_dicts) // num_parts + 1
sentences_per_part(sentence_count, parts) == sentence_count \div parts + 1

\* sentence_dicts[start_idx:end_idx] of part part_num (counted from 0)
part_sentences(sentence_dicts, part_num, per_part) ==
    LET start_idx == part_num * per_part
        end_idx == Min((part_num + 1) * per_part, Len(sentence_dicts))
    IN  Slice(sentence_dicts, start_idx, end_idx)

\* the manifest entry of a part, with the planned size as its count
part_entry_planned(category_id, part_num, part, per_part) ==
    [id |-> <<category_id, part_num + 1>>, name |-> category_id,
     part |-> part_num + 1, count |-> per_part,
     filename |-> <<category_id, part_num + 1>>]

\* the manifest entry of a part
part_entry(category_id, part_num, part, per_part) ==
    [id |-> <<category_id, part_num + 1>>, name |-> category_id,
     part |-> part_num + 1, count |-> Len(part),
     filename |-> <<category_id, part_num + 1>>]

\* the file writes of one iteration of `for category_id, sentences in
\* sorted_categories`, in order: for each the filename, the file content
\* and the entry appended to manifest["categories"]
category_writes(category_id, sentence_dicts) ==
    LET json_bytes_len == JsonBytes(json_dump(sentence_dicts))
    IN  IF json_bytes_len > MAX_FILE_SIZE
        THEN LET parts == num_parts(json_bytes_len)
                 per_part == sentences_per_part(Len(sentence_dicts), parts)
             IN  [p \in 1..parts |->
                    LET part == part_sentences(sentence_dicts, p - 1, per_part)
                    IN  [filename |-> <<category_id, p>>,
                         content |-> json_dump(part),
                         entry |-> part_entry(category_id, p - 1, part, per_part)]]
        ELSE << [filename |-> <<category_id, NoPart>>,
                 content |-> json_dump(sentence_dicts),
                 entry |-> [id |-> <<category_id, NoPart>>, name |-> category_id,
                            part |-> NoPart, count |-> Len(sentence_dicts),
                            filename |-> <<category_id, NoPart>>]] >>

\* the file writes of the whole loop, in order
all_writes(sorted) ==
    Concat([c \in 1..Len(sorted) |-> category_writes(sorted[c].id, sorted[c].sentences)])

\* open(path, 'w') and json.dump: the file is created or replaced
WriteFile(dir, filename, content) ==
    [f \in DOMAIN dir \cup {filename} |-> IF f = filename THEN content ELSE dir[f]]

WriterOff ==
    /\ wr_pc = "off"
    /\ wr_run = 0
    /\ wr_sentences = <<>>
    /\ wr_sorted = <<>>
    /\ wr_k = 0
    /\ wr_manifest = <<>>
    /\ wr_generated = <<>>
    /\ wr_dir = <<>>
    /\ wr_before = <<>>

\* main() has classified the sentences; the output directory is empty
WriterInit ==
    /\ wr_pc = "start"
    /\ wr_run = 1
    /\ wr_sentences \in WriterSentenceLists(MaxShardSentences)
    /\ wr_sorted = <<>>
    /\ wr_k = 0
    /\ wr_manifest = <<>>
    /\ wr_generated = <<>>
    /\ wr_dir = <<>>
    /\ wr_before = <<>>

\* main(): groups = group_by_category(...); write_output_files up to the
\* loop: manifest and generated_files empty, sorted_categories computed
WriterStart ==
    /\ wr_pc = "start"
    /\ wr_sorted' = sorted_categories(group_by_category(wr_sentences, WriterCategories),
                                      WriterCategories)
    /\ wr_manifest' = <<>>
    /\ wr_generated' = <<>>
    /\ wr_k' = 1
    /\ wr_before' = wr_dir
    /\ wr_pc' = "writing"
    /\ UNCHANGED <<wr_run, wr_sentences, wr_dir>>
    /\ UNCHANGED wrOthers

\* one shard file written, its entry appended to the manifest in memory
WriteShardFile ==
    /\ wr_pc = "writing"
    /\ wr_k <= Len(all_writes(wr_sorted))
    /\ LET w == all_writes(wr_sorted)[wr_k]
       IN  /\ wr_dir' = WriteFile(wr_dir, w.filename, w.content)
           /\ wr_manifest' = Append(wr_manifest, w.entry)
           /\ wr_generated' = Append(wr_generated, w.filename)
    /\ wr_k' = wr_k + 1
    /\ UNCHANGED <<wr_pc, wr_run, wr_sentences, wr_sorted, wr_before>>
    /\ UNCHANGED wrOthers

\* after the loop: index.json written with the manifest
WriteManifest ==
    /\ wr_pc = "writing"
    /\ wr_k > Len(all_writes(wr_sorted))
    /\ wr_dir' = WriteFile(wr_dir, ManifestFile,
                           [categories |-> wr_manifest, generatedAt |-> wr_run])
    /\ wr_generated' = Append(wr_generated, ManifestFile)
    /\ wr_pc' = "done"
    /\ UNCHANGED <<wr_run, wr_sentences, wr_sorted, wr_k, wr_manifest, wr_before>>
    /\ UNCHANGED wrOthers

\* the process stops between two file writes (killed, or open() or
\* json.dump raising): nothing is caught and nothing is undone
WriterStops ==
    /\ wr_pc = "writing"
    /\ wr_pc' = "stopped"
    /\ UNCHANGED <<wr_run, wr_sentences, wr_sorted, wr_k, wr_manifest,
                   wr_generated, wr_dir, wr_before>>
    /\ UNCHANGED wrOthers

\* the stage is run again, on other sentences, over the directory the
\* completed first run left
WriterRunAgain ==
    /\ wr_pc = "done"
    /\ wr_run = 1
    /\ wr_run' = 2
    /\ wr_sentences' \in WriterRerunLists
    /\ wr_pc' = "start"
    /\ UNCHANGED <<wr_sorted, wr_k, wr_manifest, wr_generated, wr_dir, wr_before>>
    /\ UNCHANGED wrOthers

WriterNext ==
    \/ WriterStart
    \/ WriteShardFile
    \/ WriteManifest
    \/ WriterStops
    \/ WriterRunAgain

----------------------------------------------------------------------------
(* Claims about the Output Writer                                          *)

\* the manifest on disk
ManifestOnDisk == wr_dir[ManifestFile].categories

\* the entries the manifest lists for a category, in manifest order
EntriesOf(category_id) ==
    SelectSeq(ManifestOnDisk, LAMBDA e : e.name = category_id)

\* the records of the shard files of a category read back, in entry order
ReadBack(category_id) ==
    LET E == EntriesOf(category_id)
    IN  Concat([k \in 1..Len(E) |-> json_load(wr_dir[E[k].filename])])

\* C12: for every category, the shard files the manifest lists for it,
\* read back in part order and concatenated, are exactly the category's
\* sentence records in their original order, split or not, and every
\* sentence of the category lies in exactly one of its shards.
C12_ShardRoundTrip ==
    wr_pc = "done" =>
        \A c \in 1..Len(wr_sorted) :
            LET cid == wr_sorted[c].id
                E == EntriesOf(cid)
            IN  /\ \A k, l \in 1..Len(E) : k < l => E[k].part < E[l].part
                /\ ReadBack(cid) = wr_sorted[c].sentences
                /\ \A i \in 1..Len(wr_sorted[c].sentences) :
                      Cardinality({k \in 1..Len(E) :
                          wr_sorted[c].sentences[i]
                              \in Range(json_load(wr_dir[E[k].filename]))}) = 1

\* greetings was split into two files that both hold records, one of them
\* a text with a quote, and food was written as one file
C12_Witness ==
    /\ wr_pc = "done"
    /\ Len(EntriesOf("greetings")) = 2
    /\ Len(wr_dir[<<"greetings", 1>>]) = 2
    /\ Len(wr_dir[<<"greetings", 2>>]) = 1
    /\ \E i \in 1..3 : "\"" \in Range(wr_sentences[i].spanish)
    /\ Len(EntriesOf("food")) = 1
    /\ wr_dir[<<"food", NoPart>>] # <<>>

\* the directory a run that reaches its end leaves, given the directory it
\* found: every shard file written, then the manifest
RECURSIVE ApplyWrites(_, _)
ApplyWrites(dir, writes) ==
    IF writes = <<>> THEN dir
    ELSE ApplyWrites(WriteFile(dir, Head(writes).filename, Head(writes).content),
                     Tail(writes))

CompleteOutput(dir, sorted, run) ==
    LET writes == all_writes(sorted)
    IN  WriteFile(ApplyWrites(dir, writes), ManifestFile,
                  [categories |-> [k \in 1..Len(writes) |-> writes[k].entry],
                   generatedAt |-> run])

\* C13: if write_output_files stops between two of its file writes, the
\* output directory holds the complete previous output or the complete new
\* output, never a manifest beside shard files of another run or only some
\* of the new files.
C13_WriteAllOrNothing ==
    wr_pc = "stopped" =>
        \/ wr_dir = wr_before
        \/ wr_dir = CompleteOutput(wr_before, wr_sorted, wr_run)

\* C16: every shard file the writer has written has a serialized size of
\* at most the byte budget.
C16_ShardWithinBudget ==
    \A k \in 1..Len(wr_generated) :
        wr_generated[k] # ManifestFile =>
            JsonBytes(wr_dir[wr_generated[k]]) <= MAX_FILE_SIZE

\* C17: after write_output_files the manifest has exactly one entry per
\* shard file written in the run and no other: an unsplit category has one
\* entry without a part number, a split one has entries with parts 1..k;
\* each entry names the file written, its count is the number of records
\* of that file, and the counts of a category sum to the size of its list.
C17_ManifestListsShards ==
    wr_pc = "done" =>
        LET m == ManifestOnDisk
            shard_files == SelectSeq(wr_generated, LAMBDA f : f # ManifestFile)
        IN  /\ Len(m) = Len(shard_files)
            /\ \A k \in 1..Len(m) : m[k].filename = shard_files[k]
            /\ \A k, l \in 1..Len(m) : k # l => m[k].filename # m[l].filename
            /\ \A k \in 1..Len(m) :
                  /\ \E c \in 1..Len(wr_sorted) : wr_sorted[c].id = m[k].name
                  /\ m[k].count = Len(json_load(wr_dir[m[k].filename]))
            /\ \A c \in 1..Len(wr_sorted) :
                  LET cid == wr_sorted[c].id
                      E == EntriesOf(cid)
                  IN  /\ \/ /\ Len(E) = 1
                            /\ E[1].part = NoPart
                            /\ E[1].filename = <<cid, NoPart>>
                         \/ /\ Len(E) >= 2
                            /\ \A k \in 1..Len(E) :
                                  E[k].part = k /\ E[k].filename = <<cid, k>>
                      /\ SumSeq([k \in 1..Len(E) |-> E[k].count])
                            = Len(wr_sorted[c].sentences)

\* a second run over the files of the first: greetings split into three
\* parts by the first run, unsplit in the second, and the manifest lists
\* the one file of the second run
C17_Witness ==
    /\ wr_pc = "done"
    /\ wr_run = 2
    /\ <<"greetings", 3>> \in DOMAIN wr_dir
    /\ Len(EntriesOf("greetings")) = 1
    /\ EntriesOf("greetings")[1].count = 1
    /\ Len(ManifestOnDisk) = 2

\* C22: a category written in k = size // budget + 1 shard files has its
\* sentences spread evenly: the counts of two shards differ by at most one,
\* and no shard is empty when the category has at least k sentences.
C22_ShardsEven ==
    wr_pc = "done" =>
        \A c \in 1..Len(wr_sorted) :
            LET E == EntriesOf(wr_sorted[c].id)
                count(k) == Len(json_load(wr_dir[E[k].filename]))
            IN  Len(E) >= 2 =>
                  /\ \A k, l \in 1..Len(E) : count(k) - count(l) <= 1
                  /\ Len(wr_sorted[c].sentences) >= Len(E) =>
                        \A k \in 1..Len(E) : count(k) > 0

----------------------------------------------------------------------------
(* find_sentences_for_word on its own: one word against a sentence pool    *)

MaxFindPad == 9
MaxFindTail == 2

\* the complexity tags: the six levels, none, and one that is not a level
FindLevels == {"A1", "A2", "B1", "B2", "C1", "C2", NoLevel, "X1"}

\* the word as words.ts gives it: as it is matched, or capitalised with a
\* trailing blank
FindWords == {<<"a">>, <<"A", " ">>}

\* a sentence of three words that holds the word "a" as a whole token
FindPadSentence == [spanish |-> <<"b", " ", "A", ".">>, wordCount |-> 3]

\* a one-word match, a seven-word match, and a sentence that holds "a"
\* only inside another word
FindSentenceData ==
    {[spanish |-> <<"a">>, wordCount |-> 1],
     [spanish |-> <<"a", " ", "b">>, wordCount |-> 7],
     [spanish |-> <<"a", "b">>, wordCount |-> 1]}

\* the pools: some copies of the three-word match, then up to MaxFindTail
\* other sentences; the id of a sentence is its position
FindPools ==
    {[i \in 1..(pad + Len(rest)) |->
        LET d == IF i <= pad THEN FindPadSentence ELSE rest[i - pad]
        IN  [id |-> i, spanish |-> d.spanish, wordCount |-> d.wordCount]] :
        pad \in 0..MaxFindPad, rest \in SeqsUpTo(FindSentenceData, MaxFindTail)}

FindOff ==
    /\ fs_pc = "off"
    /\ fs_word = <<>>
    /\ fs_level = NoLevel
    /\ fs_pool = <<>>
    /\ fs_result = <<>>

\* generate_lesson is at a word of the tier, the pool loaded
FindInit ==
    /\ fs_pc = "word"
    /\ fs_word \in FindWords
    /\ fs_level \in FindLevels
    /\ fs_pool \in FindPools
    /\ fs_result = <<>>

\* generate_lesson: matching_phrases = find_sentences_for_word(word['spanish'],
\* sentences, max_sentences=3, cefr_level=word.get('cefrLevel'))
FindSentencesForWord ==
    /\ fs_pc = "word"
    /\ fs_result' = find_sentences_for_word(fs_word, fs_pool, MAX_SENTENCES, fs_level)
    /\ fs_pc' = "found"
    /\ UNCHANGED <<fs_word, fs_level, fs_pool>>
    /\ UNCHANGED fsOthers

FindNext == FindSentencesForWord

----------------------------------------------------------------------------
(* Claims about find_sentences_for_word                                    *)

\* the threshold of a complexity tag as the specification lists it
TagThreshold(tag) ==
    CASE tag = "A1" -> 6
      [] tag = "A2" -> 8
      [] tag = "B1" -> 10
      [] tag = "B2" -> 12
      [] tag = "C1" -> 15
      [] tag = "C2" -> 20
      [] OTHER      -> 15

\* the pool sentence with the given id
FindPoolSentence(sid) == CHOOSE s \in Range(fs_pool) : s.id = sid

\* the pool sentences that hold the word as a whole token and are no
\* longer than the threshold of the word's tag
EligibleIds ==
    {s.id : s \in {x \in Range(fs_pool) :
        /\ WholeWordSearch(lower(strip(fs_word)), lower(x.spanish))
        /\ x.wordCount <= TagThreshold(fs_level)}}

\* C19: find_sentences_for_word returns the min(3, m) shortest eligible
\* sentences of the whole pool, m being the number of eligible sentences:
\* no eligible sentence left out is strictly shorter than a returned one.
C19_ShortestOfWholePool ==
    fs_pc = "found" =>
        /\ Range(fs_result) \subseteq EligibleIds
        /\ Cardinality(Range(fs_result)) = Min(MAX_SENTENCES, Cardinality(EligibleIds))
        /\ \A out \in EligibleIds \ Range(fs_result) : \A k \in 1..Len(fs_result) :
              FindPoolSentence(out).wordCount
                  >= FindPoolSentence(fs_result[k]).wordCount

\* C20: find_sentences_for_word returns at most max_sentences (3) ids,
\* each of a pool sentence that holds the word as a whole token and whose
\* wordCount is at most the threshold of the word's tag (A1 6, A2 8, B1 10,
\* B2 12, C1 15, C2 20, none or unrecognised 15), in non-decreasing
\* wordCount.
C20_AtMostThreeEligibleSorted ==
    fs_pc = "found" =>
        /\ Len(fs_result) <= MAX_SENTENCES
        /\ \A k \in 1..Len(fs_result) : fs_result[k] \in EligibleIds
        /\ \A k, l \in 1..Len(fs_result) :
              k < l => FindPoolSentence(fs_result[k]).wordCount
                          <= FindPoolSentence(fs_result[l]).wordCount

\* an A1 word written "A " against three three-word matches, a seven-word
\* match and a one-word match: the one-word match is first, the seven-word
\* one is not returned
C20_Witness ==
    /\ fs_pc = "found"
    /\ fs_word = <<"A", " ">>
    /\ fs_level = "A1"
    /\ Len(fs_pool) = 5
    /\ fs_pool[4].wordCount = 7
    /\ fs_pool[5].spanish = <<"a">>
    /\ Len(fs_result) = 3
    /\ fs_result[1] = 5
    /\ 4 \notin Range(fs_result)

\* C28: the Indexer and the Tiler decide with the same whole-token rule:
\* find_word_in_sentence(lower(w), s) holds exactly when the Tiler's test,
\* re.search of the normalized word between word boundaries in the
\* normalized sentence, holds, also for a word with leading or trailing
\* whitespace and for a word that is only part of a longer token.
C28_SameWholeTokenRule ==
    fs_pc = "found" =>
        \A k \in 1..Len(fs_pool) :
            find_word_in_sentence(lower(fs_word), fs_pool[k].spanish)
                <=> WholeWordSearch(normalize_word(fs_word),
                                    normalize_word(fs_pool[k].spanish))

----------------------------------------------------------------------------
(* The two consumers of words.ts run as programs: generate_lessons.main    *)
(* and generate_word_to_sentences_mapping.main                             *)

MaxVocabWords == 2
MaxVocabPool == 1

NoDiagnostic == "none"

\* words.ts as the two readers see it: whether the file exists, whether it
\* holds an `export const WORD_CATEGORIES ... = { ... };` object, and the
\* categories the category pattern finds in it, in key order, each with
\* the word objects the word pattern finds (every word object has its
\* spanish, english and finnish members)
VocabularyCategoryLists ==
    LET animals(n) == [key |-> "animals", name |-> "Elaimet",
                       words |-> [k \in 1..n |-> WordAt(k)]]
    IN  {<<>>} \cup {<<animals(n)>> \o more :
            n \in 0..MaxVocabWords, more \in {<<>>, <<SecondCategory>>}}

VocabularySources ==
    {[exists |-> FALSE, has_object |-> FALSE, categories |-> <<>>],
     [exists |-> TRUE, has_object |-> FALSE, categories |-> <<>>]}
    \cup {[exists |-> TRUE, has_object |-> TRUE, categories |-> cats] :
            cats \in VocabularyCategoryLists}

\* extract_vocabulary_categories: raises when the file or the object is
\* missing; a category is kept only `if words`
extract_vocabulary_categories(words_ts) ==
    IF ~words_ts.exists
    THEN [raised |-> "FileNotFoundError", categories |-> <<>>]
    ELSE IF ~words_ts.has_object
    THEN [raised |-> "ValueError", categories |-> <<>>]
    ELSE [raised |-> NoDiagnostic,
          categories |-> SelectSeq(words_ts.categories, LAMBDA c : c.words # <<>>)]

\* load_words_from_typescript: words_map in file order, keyed by the
\* Spanish word; empty (after "ERROR: ... not found!") when there is no file
load_words_from_typescript(words_ts) ==
    IF ~words_ts.exists THEN <<>>
    ELSE Unique(Concat([c \in 1..Len(words_ts.categories) |->
                    [k \in 1..Len(words_ts.categories[c].words) |->
                        words_ts.categories[c].words[k].spanish]]), {})

LessonManifestFile == <<"index">>

\* write_lesson_files: the lesson files in order, then index.json
RECURSIVE write_lesson_loop(_, _)
write_lesson_loop(dir, lessons) ==
    IF lessons = <<>> THEN dir
    ELSE write_lesson_loop(
             DictPut(dir, Head(lessons).id,
                     [key |-> Head(lessons).id, content |-> Head(lessons)]),
             Tail(lessons))

write_lesson_files(dir, lessons) ==
    LET manifest_lessons ==
            [k \in 1..Len(lessons) |->
                [id |-> lessons[k].id, category |-> lessons[k].category,
                 categoryName |-> lessons[k].categoryName, tier |-> lessons[k].tier,
                 wordCount |-> Len(lessons[k].words),
                 phraseCount |-> Len(lessons[k].phrases),
                 filename |-> lessons[k].id]]
    IN  DictPut(write_lesson_loop(dir, lessons), LessonManifestFile,
                [key |-> LessonManifestFile,
                 content |-> [lessons |-> manifest_lessons]])

\* save_mapping: word-sentences.json
save_mapping(mapping, words_map, sentences_map) ==
    [metadata |-> [totalWords |-> Len(words_map),
                   totalSentences |-> Len(sentences_map),
                   wordsWithSentences |-> Cardinality(DOMAIN mapping)],
     wordToSentences |-> mapping]

\* the lessons directory an earlier run left: one lesson and its manifest
PriorLessonsDir ==
    LET lesson == [id |-> <<"colors">>, category |-> "colors",
                   categoryName |-> "Varit", tier |-> 1,
                   words |-> <<101>>, phrases |-> <<>>]
    IN  write_lesson_files(<<>>, <<lesson>>)

\* the word-sentences.json an earlier run left
PriorWordSentences ==
    <<save_mapping([w \in {<<"a">>} |-> <<1>>], <<<<"a">>>>,
                   <<[id |-> 1, spanish |-> <<"a">>, wordCount |-> 1]>>)>>

VocabOff ==
    /\ vm_pc = "off"
    /\ vm_tool = "none"
    /\ vm_words_ts = [exists |-> FALSE, has_object |-> FALSE, categories |-> <<>>]
    /\ vm_sentences = <<>>
    /\ vm_diagnostic = NoDiagnostic
    /\ vm_lessons_dir = <<>>
    /\ vm_word_sentences = <<>>
    /\ vm_lessons_before = <<>>
    /\ vm_word_sentences_before = <<>>

\* one of the two programs is started; words.ts, the sentence shards and
\* the output of an earlier run are as they are on disk
VocabInit ==
    /\ vm_pc = "start"
    /\ vm_tool \in {"tiler", "indexer"}
    /\ vm_words_ts \in VocabularySources
    /\ vm_sentences \in SeqsUpTo(LessonSentences, MaxVocabPool)
    /\ vm_diagnostic = NoDiagnostic
    /\ vm_lessons_dir \in {<<>>, PriorLessonsDir}
    /\ vm_word_sentences \in {<<>>, PriorWordSentences}
    /\ vm_lessons_before = vm_lessons_dir
    /\ vm_word_sentences_before = vm_word_sentences

\* generate_lessons.main: load_sentences, extract_vocabulary_categories;
\* an exception of the latter ends the program with its traceback
TilerLoad ==
    /\ vm_pc = "start"
    /\ vm_tool = "tiler"
    /\ LET extracted == extract_vocabulary_categories(vm_words_ts)
       IN  IF extracted.raised # NoDiagnostic
           THEN /\ vm_diagnostic' = extracted.raised
                /\ vm_pc' = "exited"
           ELSE /\ vm_diagnostic' = vm_diagnostic
                /\ vm_pc' = "generate"
    /\ UNCHANGED <<vm_tool, vm_words_ts, vm_sentences, vm_lessons_dir,
                   vm_word_sentences, vm_lessons_before, vm_word_sentences_before>>
    /\ UNCHANGED vmOthers

\* generate_lessons.main: generate_all_lessons, write_lesson_files
TilerGenerateAndWrite ==
    /\ vm_pc = "generate"
    /\ LET categories == extract_vocabulary_categories(vm_words_ts).categories
           lessons == generate_all_lessons(categories, vm_sentences, TIER_SIZE)
       IN  vm_lessons_dir' = write_lesson_files(vm_lessons_dir, lessons)
    /\ vm_pc' = "exited"
    /\ UNCHANGED <<vm_tool, vm_words_ts, vm_sentences, vm_diagnostic,
                   vm_word_sentences, vm_lessons_before, vm_word_sentences_before>>
    /\ UNCHANGED vmOthers

\* generate_word_to_sentences_mapping.main: words_map loaded; `if not
\* words_map: print("ERROR: No words loaded!"); return`
IndexerLoadWords ==
    /\ vm_pc = "start"
    /\ vm_tool = "indexer"
    /\ IF load_words_from_typescript(vm_words_ts) = <<>>
       THEN /\ vm_diagnostic' = "ERROR: No words loaded!"
            /\ vm_pc' = "exited"
       ELSE /\ vm_diagnostic' = vm_diagnostic
            /\ vm_pc' = "sentences"
    /\ UNCHANGED <<vm_tool, vm_words_ts, vm_sentences, vm_lessons_dir,
                   vm_word_sentences, vm_lessons_before, vm_word_sentences_before>>
    /\ UNCHANGED vmOthers

\* main: sentences_map loaded; `if not sentences_map: print("ERROR: No
\* sentences loaded!"); return`
IndexerLoadSentences ==
    /\ vm_pc = "sentences"
    /\ IF vm_sentences = <<>>
       THEN /\ vm_diagnostic' = "ERROR: No sentences loaded!"
            /\ vm_pc' = "exited"
       ELSE /\ vm_diagnostic' = vm_diagnostic
            /\ vm_pc' = "map"
    /\ UNCHANGED <<vm_tool, vm_words_ts, vm_sentences, vm_lessons_dir,
                   vm_word_sentences, vm_lessons_before, vm_word_sentences_before>>
    /\ UNCHANGED vmOthers

\* main: generate_mapping, save_mapping
IndexerMapAndSave ==
    /\ vm_pc = "map"
    /\ LET words_map == load_words_from_typescript(vm_words_ts)
           mapping == generate_mapping(words_map, vm_sentences)
       IN  vm_word_sentences' = <<save_mapping(mapping, words_map, vm_sentences)>>
    /\ vm_pc' = "exited"
    /\ UNCHANGED <<vm_tool, vm_words_ts, vm_sentences, vm_diagnostic,
                   vm_lessons_dir, vm_lessons_before, vm_word_sentences_before>>
    /\ UNCHANGED vmOthers

VocabNext ==
    \/ TilerLoad
    \/ TilerGenerateAndWrite
    \/ IndexerLoadWords
    \/ IndexerLoadSentences
    \/ IndexerMapAndSave

----------------------------------------------------------------------------
(* Claims about a missing vocabulary                                       *)

\* words.ts is absent or holds no word
VocabularyYieldsNoWords ==
    \/ ~vm_words_ts.exists
    \/ \A c \in 1..Len(vm_words_ts.categories) : vm_words_ts.categories[c].words = <<>>

\* C18: when words.ts is absent or yields no words, the Lesson Tiler and
\* the Sentence Indexer stop with a diagnostic and write nothing: no lesson
\* file, no lesson manifest and no word-sentences.json is created or
\* overwritten.
C18_NoVocabularyNoOutput ==
    (vm_pc = "exited" /\ VocabularyYieldsNoWords) =>
        /\ vm_diagnostic # NoDiagnostic
        /\ vm_lessons_dir = vm_lessons_before
        /\ vm_word_sentences = vm_word_sentences_before

----------------------------------------------------------------------------
(* The shard directory svelte/static/sentences: its two writers,           *)
(* tatoeba_categorize.main and download_tatoeba.main, and its two readers, *)
(* load_sentences of generate_lessons and of                               *)
(* generate_word_to_sentences_mapping                                      *)

MaxDirSentences == 2

NoWriter == "none"
DirWriters == {"tatoeba_categorize", "download_tatoeba"}

\* a sentence no rule matches: tatoeba_categorize labels it general,
\* download_tatoeba gives it no theme
UnlabelledSentence(writer) ==
    [spanish |-> <<"b">>, finnish |-> <<"b">>, english |-> <<"b">>, wordCount |-> 1,
     categories |-> IF writer = "tatoeba_categorize" THEN <<"general">> ELSE <<>>]

\* the Sentence objects convert_to_sentence_objects hands to the grouping
\* of a writer; the label list is Sentence.categories in tatoeba_categorize
\* and Sentence.themes in download_tatoeba
DirSentenceLists(writer, n) ==
    UNION {{[i \in 1..m |->
                [id |-> DecimalDigits(i), spanish |-> d[i].spanish,
                 finnish |-> d[i].finnish, english |-> d[i].english,
                 wordCount |-> d[i].wordCount, categories |-> d[i].categories]] :
              d \in [1..m -> WriterSentenceData \cup {UnlabelledSentence(writer)}]} :
           m \in 0..n}

\* the Sentence objects of a later run: none or one
DirRerunLists(writer) == DirSentenceLists(writer, 1)

\* groups[theme].append(sentence) on a defaultdict(list), the dict held in
\* insertion order
AppendToGroup(groups, theme, sentence) ==
    IF \E k \in 1..Len(groups) : groups[k].id = theme
    THEN [k \in 1..Len(groups) |->
            IF groups[k].id = theme
            THEN [groups[k] EXCEPT !.sentences = Append(@, sentence)]
            ELSE groups[k]]
    ELSE Append(groups, [id |-> theme, sentences |-> <<sentence>>])

\* for theme in sentence.themes: groups[theme].append(sentence)
RECURSIVE AppendToGroups(_, _, _)
AppendToGroups(groups, themes, sentence) ==
    IF themes = <<>> THEN groups
    ELSE AppendToGroups(AppendToGroup(groups, Head(themes), sentence),
                        Tail(themes), sentence)

\* group_by_theme with every sentence put in 'general' as well
RECURSIVE group_by_theme_all_general(_, _)
group_by_theme_all_general(sentences, groups) ==
    IF sentences = <<>> THEN groups
    ELSE LET sentence == Head(sentences)
         IN  group_by_theme_all_general(Tail(sentences),
                 AppendToGroups(AppendToGroup(groups, "general", sentence),
                                sentence.categories, sentence))

\* download_tatoeba.group_by_theme: the loop over the sentences
RECURSIVE group_by_theme(_, _)
group_by_theme(sentences, groups) ==
    IF sentences = <<>> THEN groups
    ELSE LET sentence == Head(sentences)
         IN  group_by_theme(Tail(sentences),
                 IF sentence.categories = <<>>
                 THEN AppendToGroup(groups, "general", sentence)
                 ELSE AppendToGroups(groups, sentence.categories, sentence))

\* download_tatoeba.write_output_files: the shard files of the groups in
\* dict order, then index.json with the key "themes"
write_theme_files(dir, groups) ==
    LET writes == all_writes(groups)
    IN  WriteFile(ApplyWrites(dir, writes), ManifestFile,
                  [themes |-> [k \in 1..Len(writes) |-> writes[k].entry]])

\* generate_lessons.load_sentences: no index.json gives an empty list;
\* index['themes'] is read without a test for the key; a listed file that
\* does not exist is skipped
generate_lessons_load_sentences(dir) ==
    IF ManifestFile \notin DOMAIN dir
    THEN [raised |-> NoDiagnostic, sentences |-> <<>>]
    ELSE LET index == dir[ManifestFile]
         IN  IF "themes" \notin DOMAIN index
             THEN [raised |-> "KeyError", sentences |-> <<>>]
             ELSE [raised |-> NoDiagnostic,
                   sentences |->
                       Concat([k \in 1..Len(index.themes) |->
                           IF index.themes[k].filename \in DOMAIN dir
                           THEN json_load(dir[index.themes[k].filename])
                           ELSE <<>>])]

\* the place of a category id among the file names in sorted order
CategoryRank(category_id) ==
    CASE category_id = "food"      -> 1
      [] category_id = "general"   -> 2
      [] category_id = "greetings" -> 3

\* file name order of sorted(): "greetings-1.json" < "greetings-2.json" <
\* "greetings.json" (parts below ten)
FileBefore(f, g) ==
    \/ CategoryRank(f[1]) < CategoryRank(g[1])
    \/ /\ f[1] = g[1]
       /\ f[2] # NoPart
       /\ (g[2] = NoPart \/ f[2] < g[2])

\* sorted([f for f in STATIC_SENTENCES_DIR.glob('*.json') if f.name !=
\* 'index.json' and f.name != 'word-sentences.json'])
sorted_json_files(dir) ==
    LET files == DOMAIN dir \ {ManifestFile}
        Pos(f) == 1 + Cardinality({g \in files : FileBefore(g, f)})
    IN  [p \in 1..Cardinality(files) |-> CHOOSE f \in files : Pos(f) = p]

\* for sentence in sentences: sentences_map[sentence['id']] = {...}; of
\* the values only spanish and wordCount are read by generate_mapping
RECURSIVE load_file_sentences(_, _)
load_file_sentences(sentences, sentences_map) ==
    IF sentences = <<>> THEN sentences_map
    ELSE load_file_sentences(Tail(sentences),
             DictPut(sentences_map, Head(sentences).id,
                     [key |-> Head(sentences).id, id |-> Head(sentences).id,
                      spanish |-> Head(sentences).spanish,
                      wordCount |-> Head(sentences).wordCount]))

RECURSIVE load_json_files(_, _, _)
load_json_files(dir, json_files, sentences_map) ==
    IF json_files = <<>> THEN sentences_map
    ELSE load_json_files(dir, Tail(json_files),
             load_file_sentences(json_load(dir[Head(json_files)]), sentences_map))

\* generate_word_to_sentences_mapping.load_sentences
mapping_load_sentences(dir) ==
    load_json_files(dir, sorted_json_files(dir), <<>>)

\* the words the readers look up
DirWords == <<<<"a">>, <<"b">>>>

ShardsOff ==
    /\ sd_pc = "off"
    /\ sd_run = 0
    /\ sd_writer = NoWriter
    /\ sd_sentences = <<>>
    /\ sd_groups = <<>>
    /\ sd_dir = <<>>
    /\ sd_pool = [raised |-> NoDiagnostic, sentences |-> <<>>]
    /\ sd_word = <<>>
    /\ sd_found = <<>>
    /\ sd_mapping = <<>>

\* the directory is empty and no program runs
ShardsInit ==
    /\ sd_pc = "idle"
    /\ sd_run = 0
    /\ sd_writer = NoWriter
    /\ sd_sentences = <<>>
    /\ sd_groups = <<>>
    /\ sd_dir = <<>>
    /\ sd_pool = [raised |-> NoDiagnostic, sentences |-> <<>>]
    /\ sd_word = <<>>
    /\ sd_found = <<>>
    /\ sd_mapping = <<>>

\* tatoeba_categorize.main(): group_by_category, then write_output_files
\* over whatever the directory holds
CategorizeRun ==
    /\ sd_pc = "idle"
    /\ sd_run \in {0, 1}
    /\ \E sentences \in (IF sd_run = 0
                         THEN DirSentenceLists("tatoeba_categorize", MaxDirSentences)
                         ELSE DirRerunLists("tatoeba_categorize")) :
          LET groups == sorted_categories(
                            group_by_category(sentences, WriterCategories),
                            WriterCategories)
          IN  /\ sd_sentences' = sentences
              /\ sd_groups' = groups
              /\ sd_dir' = CompleteOutput(sd_dir, groups, sd_run + 1)
    /\ sd_writer' = "tatoeba_categorize"
    /\ sd_run' = sd_run + 1
    /\ UNCHANGED <<sd_pc, sd_pool, sd_word, sd_found, sd_mapping>>
    /\ UNCHANGED sdOthers

\* download_tatoeba.main(): group_by_theme, then write_output_files over
\* whatever the directory holds
DownloadRun ==
    /\ sd_pc = "idle"
    /\ sd_run \in {0, 1}
    /\ \E sentences \in (IF sd_run = 0
                         THEN DirSentenceLists("download_tatoeba", MaxDirSentences)
                         ELSE DirRerunLists("download_tatoeba")) :
          LET groups == group_by_theme(sentences, <<>>)
          IN  /\ sd_sentences' = sentences
              /\ sd_groups' = groups
              /\ sd_dir' = write_theme_files(sd_dir, groups)
    /\ sd_writer' = "download_tatoeba"
    /\ sd_run' = sd_run + 1
    /\ UNCHANGED <<sd_pc, sd_pool, sd_word, sd_found, sd_mapping>>
    /\ UNCHANGED sdOthers

\* generate_lessons.main(): sentences = load_sentences()
TilerLoadSentences ==
    /\ sd_pc = "idle"
    /\ sd_pool' = generate_lessons_load_sentences(sd_dir)
    /\ sd_pc' = IF sd_pool'.raised = NoDiagnostic THEN "tiler_loaded" ELSE "tiler_raised"
    /\ UNCHANGED <<sd_run, sd_writer, sd_sentences, sd_groups, sd_dir,
                   sd_word, sd_found, sd_mapping>>
    /\ UNCHANGED sdOthers

\* generate_lesson: find_sentences_for_word for a word of the tier
TilerFindSentences ==
    /\ sd_pc = "tiler_loaded"
    /\ \E w \in 1..Len(DirWords) :
          /\ sd_word' = DirWords[w]
          /\ sd_found' = find_sentences_for_word(DirWords[w], sd_pool.sentences,
                                                 MAX_SENTENCES, NoLevel)
    /\ sd_pc' = "tiler_found"
    /\ UNCHANGED <<sd_run, sd_writer, sd_sentences, sd_groups, sd_dir,
                   sd_pool, sd_mapping>>
    /\ UNCHANGED sdOthers

\* generate_word_to_sentences_mapping.main(): sentences_map = load_sentences()
IndexerLoadShards ==
    /\ sd_pc = "idle"
    /\ sd_pool' = [raised |-> NoDiagnostic, sentences |-> mapping_load_sentences(sd_dir)]
    /\ sd_pc' = "indexer_loaded"
    /\ UNCHANGED <<sd_run, sd_writer, sd_sentences, sd_groups, sd_dir,
                   sd_word, sd_found, sd_mapping>>
    /\ UNCHANGED sdOthers

\* main(): "ERROR: No sentences loaded!" and return when sentences_map is
\* empty, else mapping = generate_mapping(words_map, sentences_map)
IndexerGenerateMapping ==
    /\ sd_pc = "indexer_loaded"
    /\ IF sd_pool.sentences = <<>>
       THEN sd_mapping' = sd_mapping /\ sd_pc' = "indexer_exited"
       ELSE /\ sd_mapping' = generate_mapping(DirWords, sd_pool.sentences)
            /\ sd_pc' = "indexer_mapped"
    /\ UNCHANGED <<sd_run, sd_writer, sd_sentences, sd_groups, sd_dir,
                   sd_pool, sd_word, sd_found>>
    /\ UNCHANGED sdOthers

ShardsNext ==
    \/ CategorizeRun
    \/ DownloadRun
    \/ TilerLoadSentences
    \/ TilerFindSentences
    \/ IndexerLoadShards
    \/ IndexerGenerateMapping

----------------------------------------------------------------------------
(* Claims about the shard directory and its readers                        *)

\* the shard files the manifest on disk lists, whichever writer wrote it
ListedShards ==
    IF ManifestFile \notin DOMAIN sd_dir THEN <<>>
    ELSE LET index == sd_dir[ManifestFile]
             entries == IF "themes" \in DOMAIN index
                        THEN index.themes ELSE index.categories
         IN  [k \in 1..Len(entries) |-> entries[k].filename]

\* the ids of the records of a shard file
ShardIds(filename) ==
    {json_load(sd_dir[filename])[k].id : k \in 1..Len(sd_dir[filename])}

\* C25: generate_lessons.load_sentences can consume what
\* tatoeba_categorize.write_output_files wrote: it returns the records of
\* every shard the manifest lists, raises nothing, and the pool is not
\* empty when sentences were written.
C25_TilerReadsCategorizeOutput ==
    (sd_pc \in {"tiler_loaded", "tiler_raised"} /\ sd_writer = "tatoeba_categorize") =>
        /\ sd_pool.raised = NoDiagnostic
        /\ sd_pool.sentences =
              Concat([k \in 1..Len(ListedShards) |-> json_load(sd_dir[ListedShards[k]])])
        /\ sd_sentences # <<>> => sd_pool.sentences # <<>>

\* C26: after any sequence of writer runs into the directory followed by
\* an indexer run, every sentence id in the reverse index is the id of a
\* record of a shard file that the most recent manifest lists.
C26_IndexOnlyListedShards ==
    sd_pc = "indexer_mapped" =>
        \A w \in DOMAIN sd_mapping : \A k \in 1..Len(sd_mapping[w]) :
            \E f \in Range(ListedShards) : sd_mapping[w][k] \in ShardIds(f)

\* C27: the ids find_sentences_for_word returns for one word are pairwise
\* distinct, also when the pool load_sentences built holds a sentence
\* once per shard it is in.
C27_FoundIdsDistinct ==
    sd_pc = "tiler_found" =>
        \A k, l \in 1..Len(sd_found) : k # l => sd_found[k] # sd_found[l]

\* the groups a sentence belongs to: those of its labels, or 'general'
\* when it has none
GroupsOfSentence(s) ==
    IF s.categories = <<>> THEN {"general"} ELSE Range(s.categories)

\* C29: grouping puts each sentence in the group of every one of its
\* labels exactly once and in input order, and a sentence without a label
\* in 'general' and in no other group; the group sizes sum to the sum over
\* the sentences of max(1, number of labels); an empty list gives no
\* non-empty group.
C29_GroupedByEveryLabel ==
    (sd_run >= 1 /\ sd_pc = "idle") =>
        /\ \A g \in 1..Len(sd_groups) :
              sd_groups[g].sentences =
                  SelectSeq(sd_sentences,
                            LAMBDA s : sd_groups[g].id \in GroupsOfSentence(s))
        /\ \A g, h \in 1..Len(sd_groups) : g # h => sd_groups[g].id # sd_groups[h].id
        /\ \A i \in 1..Len(sd_sentences) : \A c \in GroupsOfSentence(sd_sentences[i]) :
              \E g \in 1..Len(sd_groups) :
                  /\ sd_groups[g].id = c
                  /\ Cardinality({k \in 1..Len(sd_groups[g].sentences) :
                        sd_groups[g].sentences[k] = sd_sentences[i]}) = 1
        /\ SumSeq([g \in 1..Len(sd_groups) |-> Len(sd_groups[g].sentences)])
              = SumSeq([i \in 1..Len(sd_sentences) |->
                    IF Len(sd_sentences[i].categories) > 1
                    THEN Len(sd_sentences[i].categories) ELSE 1])
        /\ sd_sentences = <<>> =>
              \A g \in 1..Len(sd_groups) : sd_groups[g].sentences = <<>>

\* download_tatoeba grouped a sentence of two themes and one of none:
\* three groups of one sentence each
C29_Witness ==
    /\ sd_pc = "idle"
    /\ sd_writer = "download_tatoeba"
    /\ Len(sd_sentences) = 2
    /\ sd_sentences[1].categories = <<"greetings", "food">>
    /\ sd_sentences[2].categories = <<>>
    /\ [g \in 1..Len(sd_groups) |-> sd_groups[g].id] = <<"greetings", "food", "general">>
    /\ sd_groups[3].sentences = <<sd_sentences[2]>>

----------------------------------------------------------------------------
(* merge.py: new words and tips merged into words_tips_translations.json   *)

MaxMergeWords == 2
MaxFinnishTips == 3

NoData == [exists |-> FALSE, data |-> <<>>]

EnglishTip(text) == [language |-> "english", text |-> text]
FinnishTip(text) == [language |-> "finnish", text |-> text]

\* the Finnish tips a destination word can hold: the first n of these
FinnishTipTexts == <<"f1", "f2", "f3", "f4", "f5">>

\* learningTips of a source word: none, English tips, or English tips
\* followed by a Finnish one
SourceTipLists ==
    {<<>>, <<EnglishTip("e1")>>, <<EnglishTip("e2")>>,
     <<EnglishTip("e1"), FinnishTip("f9")>>}

\* learningTips of a destination word: no or one English tip, then up to
\* MaxFinnishTips Finnish tips
DestTipLists ==
    {english \o [k \in 1..n |-> FinnishTip(FinnishTipTexts[k])] :
        english \in {<<>>, <<EnglishTip("e1")>>}, n \in 0..MaxFinnishTips}

\* words_and_tips.json: the category animals with up to MaxMergeWords
\* words, and perhaps a category the destination does not have
MergeSources ==
    {<<[key |-> "animals", name |-> "Animals", words |-> words]>> \o more :
        words \in SeqsUpTo({[spanish |-> sp, learningTips |-> tips] :
                               sp \in {<<"a">>, <<"b">>}, tips \in SourceTipLists},
                           MaxMergeWords),
        more \in {<<>>, <<[key |-> "colors", name |-> "Colors",
                           words |-> <<[spanish |-> <<"a">>,
                                        learningTips |-> <<EnglishTip("e1")>>]>>]>>}}

\* words_tips_translations.json: the category animals with no word or with
\* the word "a"
MergeDestinations ==
    {<<[key |-> "animals", name |-> "Animals", words |-> words]>> :
        words \in {<<>>} \cup {<<[spanish |-> <<"a">>, learningTips |-> tips]>> :
                                  tips \in DestTipLists}}

\* [t for t in tips if isinstance(t, dict) and t.get('language') == language]
TipsOfLanguage(tips, language) ==
    SelectSeq(tips, LAMBDA t : t.language = language)

has_finnish_translations(word) ==
    LET tips == word.learningTips
    IN  IF tips = <<>> THEN FALSE
        ELSE Len(TipsOfLanguage(tips, "finnish")) >= 3

tips_are_different(tips1, tips2) ==
    IF tips1 = <<>> \/ tips2 = <<>> THEN tips1 # tips2
    ELSE LET eng1 == TipsOfLanguage(tips1, "english")
             eng2 == TipsOfLanguage(tips2, "english")
         IN  IF Len(eng1) # Len(eng2) THEN TRUE
             ELSE \E k \in 1..Len(eng1) : eng1[k].text # eng2[k].text

\* merge_words: the destination word after the call and the value returned
merge_words(source_word, dest_word) ==
    IF dest_word.learningTips = <<>>
    THEN [word |-> [dest_word EXCEPT !.learningTips = source_word.learningTips],
          updated |-> TRUE]
    ELSE LET source_tips == source_word.learningTips
             dest_tips == dest_word.learningTips
         IN  IF tips_are_different(source_tips, dest_tips)
             THEN IF has_finnish_translations(dest_word)
                  THEN LET finnish_tips == TipsOfLanguage(dest_tips, "finnish")
                           english_tips == source_tips
                       IN  [word |-> [dest_word EXCEPT
                                         !.learningTips = english_tips \o finnish_tips],
                            updated |-> TRUE]
                  ELSE [word |-> [dest_word EXCEPT !.learningTips = source_tips],
                        updated |-> TRUE]
             ELSE [word |-> dest_word, updated |-> FALSE]

\* the index of the first destination word with this Spanish text, 0 if none
FirstWordIndex(words, spanish) ==
    IF \E k \in 1..Len(words) : words[k].spanish = spanish
    THEN CHOOSE k \in 1..Len(words) :
            /\ words[k].spanish = spanish
            /\ \A j \in 1..(k - 1) : words[j].spanish # spanish
    ELSE 0

\* merge_data: the loop over the words of one source category; acc holds
\* the destination words and the three counters
RECURSIVE merge_category_words(_, _)
merge_category_words(source_words, acc) ==
    IF source_words = <<>> THEN acc
    ELSE LET source_word == Head(source_words)
             k == FirstWordIndex(acc.words, source_word.spanish)
         IN  merge_category_words(Tail(source_words),
                 IF k = 0
                 THEN [acc EXCEPT !.words = Append(@, source_word),
                                  !.words_added = @ + 1]
                 ELSE LET m == merge_words(source_word, acc.words[k])
                      IN  IF m.updated
                          THEN [acc EXCEPT !.words[k] = m.word, !.words_updated = @ + 1]
                          ELSE [acc EXCEPT !.words_skipped = @ + 1])

\* merge_data: the loop over source_data.items(); acc holds dest_data and
\* the three counters
RECURSIVE merge_data(_, _)
merge_data(source_data, acc) ==
    IF source_data = <<>> THEN acc
    ELSE LET source_category == Head(source_data)
             dest_data ==
                 IF source_category.key \in DictKeys(acc.dest_data)
                 THEN acc.dest_data
                 ELSE Append(acc.dest_data,
                             [key |-> source_category.key,
                              name |-> source_category.name, words |-> <<>>])
             c == CHOOSE c \in 1..Len(dest_data) : dest_data[c].key = source_category.key
             merged == merge_category_words(source_category.words,
                           [words |-> dest_data[c].words,
                            words_added |-> acc.words_added,
                            words_updated |-> acc.words_updated,
                            words_skipped |-> acc.words_skipped])
         IN  merge_data(Tail(source_data),
                 [dest_data |-> [dest_data EXCEPT ![c].words = merged.words],
                  words_added |-> merged.words_added,
                  words_updated |-> merged.words_updated,
                  words_skipped |-> merged.words_skipped])

NoCounts == [words_added |-> 0, words_updated |-> 0, words_skipped |-> 0]

MergeOff ==
    /\ mg_pc = "off"
    /\ mg_source = NoData
    /\ mg_dest_file = NoData
    /\ mg_dest = <<>>
    /\ mg_counts = NoCounts

\* main() is started; each of the two files exists or not
MergeInit ==
    /\ mg_pc = "start"
    /\ mg_source \in {NoData} \cup {[exists |-> TRUE, data |-> d] : d \in MergeSources}
    /\ mg_dest_file \in {NoData}
                         \cup {[exists |-> TRUE, data |-> d] : d \in MergeDestinations}
    /\ mg_dest = <<>>
    /\ mg_counts = NoCounts

\* main(): the source file is not found
MergeWithoutSource ==
    /\ mg_pc = "start"
    /\ ~mg_source.exists
    /\ mg_pc' = "done"
    /\ UNCHANGED <<mg_source, mg_dest_file, mg_dest, mg_counts>>
    /\ UNCHANGED mgOthers

\* main(): the destination file is not found and is created from the source
MergeCreatesDestination ==
    /\ mg_pc = "start"
    /\ mg_source.exists
    /\ ~mg_dest_file.exists
    /\ mg_dest' = mg_source.data
    /\ mg_dest_file' = [exists |-> TRUE, data |-> mg_source.data]
    /\ mg_pc' = "done"
    /\ UNCHANGED <<mg_source, mg_counts>>
    /\ UNCHANGED mgOthers

\* main(): both files loaded, merge_data(source_data, dest_data)
MergeData ==
    /\ mg_pc = "start"
    /\ mg_source.exists
    /\ mg_dest_file.exists
    /\ LET merged == merge_data(mg_source.data,
                                [dest_data |-> mg_dest_file.data,
                                 words_added |-> 0, words_updated |-> 0,
                                 words_skipped |-> 0])
       IN  /\ mg_dest' = merged.dest_data
           /\ mg_counts' = [words_added |-> merged.words_added,
                            words_updated |-> merged.words_updated,
                            words_skipped |-> merged.words_skipped]
    /\ mg_pc' = "merged"
    /\ UNCHANGED <<mg_source, mg_dest_file>>
    /\ UNCHANGED mgOthers

\* main(): save_json_file(DEST_FILE, dest_data)
MergeSave ==
    /\ mg_pc = "merged"
    /\ mg_dest_file' = [exists |-> TRUE, data |-> mg_dest]
    /\ mg_pc' = "done"
    /\ UNCHANGED <<mg_source, mg_dest, mg_counts>>
    /\ UNCHANGED mgOthers

MergeNext ==
    \/ MergeWithoutSource
    \/ MergeCreatesDestination
    \/ MergeData
    \/ MergeSave

----------------------------------------------------------------------------
(* Claims about merge.py                                                   *)

\* C30: after merge_data(source, dest) every Finnish learning tip a
\* destination word held before the merge is still among that word's
\* learningTips, whatever the source holds and however many Finnish tips
\* the word had (one, two, three or more).
C30_FinnishTipsKept ==
    mg_pc = "merged" =>
        \A c \in 1..Len(mg_dest_file.data) :
            \A k \in 1..Len(mg_dest_file.data[c].words) :
                LET before == mg_dest_file.data[c].words[k]
                    after == mg_dest[c].words[k]
                IN  /\ after.spanish = before.spanish
                    /\ \A t \in Range(TipsOfLanguage(before.learningTips, "finnish")) :
                          t \in Range(after.learningTips)

----------------------------------------------------------------------------
(* Specifications: one per component, the other components switched off    *)

InitDedup ==
    DedupInit /\ ClassifyOff /\ LessonsOff /\ IndexOff
        /\ PipelineOff /\ LoaderOff /\ WriterOff
        /\ FindOff /\ VocabOff /\ ShardsOff /\ MergeOff
SpecDedup == InitDedup /\ [][DedupNext]_vars

InitClassify ==
    ClassifyInit /\ DedupOff /\ LessonsOff /\ IndexOff
        /\ PipelineOff /\ LoaderOff /\ WriterOff
        /\ FindOff /\ VocabOff /\ ShardsOff /\ MergeOff
SpecClassify == InitClassify /\ [][ClassifyNext]_vars

InitLessons ==
    LessonsInit /\ DedupOff /\ ClassifyOff /\ IndexOff
        /\ PipelineOff /\ LoaderOff /\ WriterOff
        /\ FindOff /\ VocabOff /\ ShardsOff /\ MergeOff
SpecLessons == InitLessons /\ [][LessonsNext]_vars

InitIndex ==
    IndexInit /\ DedupOff /\ ClassifyOff /\ LessonsOff
        /\ PipelineOff /\ LoaderOff /\ WriterOff
        /\ FindOff /\ VocabOff /\ ShardsOff /\ MergeOff
SpecIndex == InitIndex /\ [][IndexNext]_vars

InitPipeline ==
    PipelineInit /\ DedupOff /\ ClassifyOff /\ LessonsOff
        /\ IndexOff /\ LoaderOff /\ WriterOff
        /\ FindOff /\ VocabOff /\ ShardsOff /\ MergeOff
SpecPipeline == InitPipeline /\ [][PipelineNext]_vars

InitLoader ==
    LoaderInit /\ DedupOff /\ ClassifyOff /\ LessonsOff
        /\ IndexOff /\ PipelineOff /\ WriterOff
        /\ FindOff /\ VocabOff /\ ShardsOff /\ MergeOff
SpecLoader == InitLoader /\ [][LoaderNext]_vars

InitWriter ==
    WriterInit /\ DedupOff /\ ClassifyOff /\ LessonsOff
        /\ IndexOff /\ PipelineOff /\ LoaderOff
        /\ FindOff /\ VocabOff /\ ShardsOff /\ MergeOff
SpecWriter == InitWriter /\ [][WriterNext]_vars

InitFind ==
    FindInit /\ DedupOff /\ ClassifyOff /\ LessonsOff
        /\ IndexOff /\ PipelineOff /\ LoaderOff
        /\ WriterOff /\ VocabOff /\ ShardsOff /\ MergeOff
SpecFind == InitFind /\ [][FindNext]_vars

InitVocab ==
    VocabInit /\ DedupOff /\ ClassifyOff /\ LessonsOff
        /\ IndexOff /\ PipelineOff /\ LoaderOff
        /\ WriterOff /\ FindOff /\ ShardsOff /\ MergeOff
SpecVocab == InitVocab /\ [][VocabNext]_vars

InitShards ==
    ShardsInit /\ DedupOff /\ ClassifyOff /\ LessonsOff /\ IndexOff
        /\ PipelineOff /\ LoaderOff /\ WriterOff /\ FindOff /\ VocabOff /\ MergeOff
SpecShards == InitShards /\ [][ShardsNext]_vars

InitMerge ==
    MergeInit /\ DedupOff /\ ClassifyOff /\ LessonsOff /\ IndexOff
        /\ PipelineOff /\ LoaderOff /\ WriterOff /\ FindOff /\ VocabOff /\ ShardsOff
SpecMerge == InitMerge /\ [][MergeNext]_vars

=============================================================================
